---- MODULE Spec2Model ----
(***************************************************************************)
(* Connection / Cursor wrappers of jdbc-wrapper over the jpype.dbapi2      *)
(* native layer.                                                           *)
(*                                                                         *)
(* The wrappers (pyjdbc2/connection.py, pyjdbc2/connection_async.py,       *)
(* jdbc_wrapper/cursor.py, jdbc_wrapper/utils.py) hold no state of their   *)
(* own: every method delegates to a jpype.dbapi2 object and translates its *)
(* errors.  The state of the model is therefore the state of the native    *)
(* objects the wrappers hold (the JDBC connection handle _jcx, the _closed *)
(* flag of the jpype Connection, _closed/_thread/result set of every jpype *)
(* Cursor), plus the record of what the most recent call returned to its   *)
(* caller.  The J* operators are the jpype.dbapi2 methods the wrappers     *)
(* call; each wrapper method is one operator built on them, and each       *)
(* action is one call of a wrapper method by one caller.                   *)
(***************************************************************************)
EXTENDS Integers, Sequences, FiniteSets, TLC


\* ------------------------------------------------------------------ bounds
NumThreads == 2
NumTasks == 2
MaxValue == 2
MaxArgs == 2
MaxRows == 2
MaxSets == 2
MaxOps == 3
MaxParams == 2

\* identities of OS threads and of coroutines
Id(kind, i) == [kind |-> kind, i |-> i]
NoThread == Id("none", 0)
\* synchronous caller threads (test_thread.py: one pool thread per caller)
Threads == {Id("thread", i) : i \in 1..NumThreads}
\* coroutines (tasks) scheduled on one event loop
Tasks == {Id("task", i) : i \in 1..NumTasks}
\* the thread that runs the event loop, and the thread run_in_thread uses
LoopThread == Id("loop", 0)
WorkerThread == Id("worker", 0)
Callers == Threads \cup Tasks
\* every caller holds at most one cursor at a time ("with conn.cursor() as cursor")
Cursors == Callers
Values == 1..MaxValue
\* what the concurrent callers execute: a one-row query, a statement in error
Statements == {"SELECT ?", "INVALID"}
\* a statement that writes the row of its parameter
DmlStatements == {"INSERT ?"}
\* a query over a table of MaxRows rows with the columns id, name, and a query
\* with two parameter markers
TableStatements == {"SELECT *", "SELECT ?, ?"}
AllStatements == Statements \cup DmlStatements \cup TableStatements
\* the size fetchmany passes on when the caller gives none
DefaultSize == -1
ParamKeys == {"a", "b"}
FetchSizes == {-1, 1}
Messages == {"m1", "m2"}

VARIABLES
  jcxClosed,    \* java.sql.Connection.isClosed() of the handle _jcx
  connClosed,   \* jpype_dbapi2.Connection._closed
  cur,          \* the jpype_dbapi2.Cursor object held by each caller
  bound,        \* history: per cursor, the value its last execute of "SELECT ?" bound, 0 once a row was fetched
  closeCalled,  \* history: close() of the connection has been called
  last,         \* the most recent completed call and what its caller observed
  task,         \* position of each coroutine inside AsyncConnection._safe_run_in_thread
  xlate,        \* one application of catch_errors: what func did, what the caller saw
  jAutoCommit,  \* java.sql.Connection.getAutoCommit() of the handle _jcx
  db,           \* the database: rows of the connection's open transaction, committed rows
  obs,          \* one caller, one cursor: the call just made, its arguments, the cursor before it
  hist,         \* history: the calls of a session that succeeded, in order
  registry,     \* pipeline._registry: key -> registered object
  queue,        \* pipeline._registry_queue: the pipeline classes not yet instantiated
  fn,           \* one application of a function: its name, its arguments, its result
  java          \* the native runtime: started, attached threads, classpath, drivers

vars == <<jcxClosed, connClosed, cur, bound, closeCalled, last, task, xlate,
          jAutoCommit, db, obs, hist, registry, queue, fn, java>>

\* ------------------------------------------------------ exceptions, results
Kinds ==
  {"NotSupportedError", "ProgrammingError", "InternalError", "IntegrityError",
   "OperationalError", "DataError", "DatabaseError", "InterfaceError",
   "Warning", "Error"}

NoCause == [kind |-> "none", args |-> <<>>]
NoExc == [layer |-> "none", kind |-> "none", args |-> <<>>, cause |-> NoCause]

\* an exception object of jpype.dbapi2 (or of another native class) with its args
NativeExcArgs(kind, args) ==
  [layer |-> "native", kind |-> kind, args |-> args, cause |-> NoCause]

NativeExc(kind, msg) == NativeExcArgs(kind, <<msg>>)

\* an exception of the interpreter (AttributeError, ...)
PythonExc(kind, msg) ==
  [layer |-> "python", kind |-> kind, args |-> <<msg>>, cause |-> NoCause]

\* a member of the caller-facing taxonomy raised by the wrapper itself
TaxonomyExc(kind, msg) ==
  [layer |-> "taxonomy", kind |-> kind, args |-> <<msg>>, cause |-> NoCause]

Ok(vtag, value) ==
  [status |-> "ok", vtag |-> vtag, value |-> value, exc |-> NoExc]

Raise(exc) ==
  [status |-> "raised", vtag |-> "none", value |-> <<>>, exc |-> exc]

\* class hierarchy of the native exception classes (PEP 249)
NativeParent(k) ==
  CASE k \in {"NotSupportedError", "ProgrammingError", "InternalError",
              "IntegrityError", "OperationalError", "DataError"} -> "DatabaseError"
    [] k \in {"DatabaseError", "InterfaceError"} -> "Error"
    [] OTHER -> "Exception"

\* isinstance(exc of class k, class base)
IsSubclass(k, base) ==
  \/ k = base
  \/ NativeParent(k) = base
  \/ (NativeParent(k) \in Kinds /\ NativeParent(NativeParent(k)) = base)

\* the except clauses of catch_errors, top to bottom
CatchOrderParentFirst ==
  <<"Error", "DatabaseError", "NotSupportedError", "ProgrammingError",
    "InternalError", "IntegrityError", "OperationalError", "DataError",
    "InterfaceError", "Warning">>

CatchOrder ==
  <<"NotSupportedError", "ProgrammingError", "InternalError", "IntegrityError",
    "OperationalError", "DataError", "DatabaseError", "InterfaceError",
    "Warning", "Error">>

\* catch_errors applied to what func(*args) did: r is func's outcome
catch_errors(r) ==
  IF r.status = "ok" THEN r
  ELSE IF r.exc.layer = "native"
          /\ \E i \in 1..Len(CatchOrder) : IsSubclass(r.exc.kind, CatchOrder[i])
  THEN LET i == CHOOSE j \in 1..Len(CatchOrder) :
                  /\ IsSubclass(r.exc.kind, CatchOrder[j])
                  /\ \A m \in 1..(j - 1) : ~IsSubclass(r.exc.kind, CatchOrder[m])
       IN  Raise([layer |-> "taxonomy", kind |-> CatchOrder[i],
                  args |-> r.exc.args,
                  cause |-> [kind |-> r.exc.kind, args |-> r.exc.args]])
  ELSE r

\* wrap_errors(func): func runs inside catch_errors
wrap_errors(o) == [n |-> o.n, r |-> catch_errors(o.r)]

\* ------------------------------------------------- native layer: jpype.dbapi2
\* n = [jcx, closed, cur]: the native objects; every J operator returns
\* [n |-> the native objects afterwards, r |-> what the call returned or raised]
\* Cursor.description of the native cursor: None, or one entry per result column
NoDescription == [isNone |-> TRUE, columns |-> <<>>]
Description(columns) == [isNone |-> FALSE, columns |-> columns]

\* what execute leaves on the native cursor and _finish resets: the result set
\* (open, remaining rows), _rowcount and the result metadata
NoRs == [open |-> FALSE, rows |-> <<>>, rowcount |-> -1, description |-> NoDescription]
NoCursor ==
  [exists |-> FALSE, closed |-> FALSE, thread |-> NoThread, rs |-> NoRs, arraysize |-> 1]

\* the database behind the connection
NoDb == [pending |-> {}, committed |-> {}]

\* parameter objects handed to execute: None, a sequence, or a Mapping with
\* its keys and its values in iteration order
NoParams == [kind |-> "none", keys |-> <<>>, items |-> <<>>]
SeqParams(items) == [kind |-> "seq", keys |-> <<>>, items |-> items]
MapParams(keys, values) == [kind |-> "map", keys |-> keys, items |-> values]

Native ==
  [jcx |-> jcxClosed, closed |-> connClosed, cur |-> cur,
   autocommit |-> jAutoCommit, db |-> db]

\* jpype Connection._validate
JConnection_validate(n) == n.closed \/ n.jcx

\* jpype Connection.close: _validate(), then _close()
JConnection_close(n) ==
  IF JConnection_validate(n)
  THEN [n |-> n, r |-> Raise(NativeExc("ProgrammingError", "Connection is closed"))]
  ELSE [n |-> [n EXCEPT !.jcx = TRUE, !.closed = TRUE, !.db.pending = {}],
        r |-> Ok("unit", <<>>)]

\* jpype Connection.commit: _validate(), then the JDBC call, whose SQLException
\* (fail) is raised as OperationalError
JConnection_commit(n, fail) ==
  IF JConnection_validate(n)
  THEN [n |-> n, r |-> Raise(NativeExc("ProgrammingError", "Connection is closed"))]
  ELSE IF fail
  THEN [n |-> n, r |-> Raise(NativeExc("OperationalError", "commit failed"))]
  ELSE [n |-> [n EXCEPT !.db = [pending |-> {}, committed |-> @.committed \cup @.pending]],
        r |-> Ok("unit", <<>>)]

\* jpype Connection.rollback
JConnection_rollback(n, fail) ==
  IF JConnection_validate(n)
  THEN [n |-> n, r |-> Raise(NativeExc("ProgrammingError", "Connection is closed"))]
  ELSE IF fail
  THEN [n |-> n, r |-> Raise(NativeExc("OperationalError", "rollback failed"))]
  ELSE [n |-> [n EXCEPT !.db.pending = {}], r |-> Ok("unit", <<>>)]

\* jpype Connection.autocommit (getter): _jcx.getAutoCommit()
JConnection_get_autocommit(n) ==
  IF JConnection_validate(n)
  THEN [n |-> n, r |-> Raise(NativeExc("ProgrammingError", "Connection is closed"))]
  ELSE [n |-> n, r |-> Ok("bool", <<n.autocommit>>)]

\* jpype Connection.autocommit (setter): _jcx.setAutoCommit(value); JDBC commits
\* the open transaction when the mode changes
JConnection_set_autocommit(n, value) ==
  IF JConnection_validate(n)
  THEN [n |-> n, r |-> Raise(NativeExc("ProgrammingError", "Connection is closed"))]
  ELSE [n |-> [n EXCEPT !.autocommit = value,
                        !.db = IF value # n.autocommit
                               THEN [pending |-> {}, committed |-> @.committed \cup @.pending]
                               ELSE @],
        r |-> Ok("unit", <<>>)]

\* jpype Connection.cursor: _validate(), then Cursor(self) on the calling thread
JConnection_cursor(n, c, t) ==
  IF JConnection_validate(n)
  THEN [n |-> n, r |-> Raise(NativeExc("ProgrammingError", "Connection is closed"))]
  ELSE [n |-> [n EXCEPT !.cur[c] =
                 [NoCursor EXCEPT !.exists = TRUE, !.thread = t]],
        r |-> Ok("cursor", <<>>)]

\* jpype Cursor._validate: "ok" or the message of the ProgrammingError
JCursor_validate(n, c, t) ==
  IF n.cur[c].closed \/ n.jcx THEN "Cursor is closed"
  ELSE IF t # n.cur[c].thread THEN "Threading error"
  ELSE "ok"

\* jpype Cursor._check_executed
JCursor_check_executed(n, c, t) ==
  IF n.cur[c].closed \/ n.jcx THEN "Cursor is closed"
  ELSE IF ~n.cur[c].rs.open THEN "execute() first"
  ELSE IF t # n.cur[c].thread THEN "Threading error"
  ELSE "ok"

\* jpype Cursor._finish: the result set and statement are released
JCursor_finish(n, c) == [n EXCEPT !.cur[c].rs = NoRs]

\* jpype Cursor.close: _validate(), then _close()
JCursor_close(n, c, t) ==
  IF JCursor_validate(n, c, t) # "ok"
  THEN [n |-> n, r |-> Raise(NativeExc("ProgrammingError", JCursor_validate(n, c, t)))]
  ELSE [n |-> [JCursor_finish(n, c) EXCEPT !.cur[c].closed = TRUE],
        r |-> Ok("unit", <<>>)]

\* the rows of the table the TableStatements read
TableRows == [i \in 1..MaxRows |-> <<i, 10 + i>>]

\* a statement that returns a result set
IsQuery(operation) == operation \in {"SELECT ?", "SELECT *", "SELECT ?, ?"}

\* number of parameter markers of a statement
ParamCount(operation) ==
  IF operation = "SELECT *" THEN 0 ELSE IF operation = "SELECT ?, ?" THEN 2 ELSE 1

\* rows of the result set of a statement with its bound parameters
ResultRows(operation, params) ==
  IF operation \in {"SELECT ?", "SELECT ?, ?"} THEN <<params>>
  ELSE IF operation = "SELECT *" THEN TableRows
  ELSE <<>>

\* column names of the result set of a statement
ResultColumns(operation) ==
  IF operation = "SELECT ?" THEN <<"?column?">>
  ELSE IF operation = "SELECT ?, ?" THEN <<"?column?", "?column?">>
  ELSE IF operation = "SELECT *" THEN <<"id", "name">>
  ELSE <<>>

\* rows written by a DML statement: into the open transaction, or committed at
\* once when auto-commit is on
InsertRows(n, vals) ==
  IF n.autocommit
  THEN [n EXCEPT !.db.committed = @ \cup vals]
  ELSE [n EXCEPT !.db.pending = @ \cup vals]

\* jpype Cursor._setParams: "ok" or why a parameter set is rejected
JCursor_setParams(operation, params) ==
  IF params.kind = "map" THEN "mapping parameters not supported"
  ELSE IF Len(params.items) # ParamCount(operation) THEN "parameter count"
  ELSE "ok"

\* jpype Cursor.execute: _validate(), _finish(), prepare, bind, execute; a
\* result set leaves _rowcount at -1, a DML statement sets it to the update count
JCursor_execute(n, c, t, operation, params) ==
  IF JCursor_validate(n, c, t) # "ok"
  THEN [n |-> n, r |-> Raise(NativeExc("ProgrammingError", JCursor_validate(n, c, t)))]
  ELSE IF operation = "INVALID"
  THEN [n |-> JCursor_finish(n, c), r |-> Raise(NativeExc("ProgrammingError", "syntax error"))]
  ELSE IF JCursor_setParams(operation, params) = "mapping parameters not supported"
  THEN [n |-> JCursor_finish(n, c),
        r |-> Raise(NativeExc("InterfaceError", "mapping parameters not supported"))]
  ELSE IF JCursor_setParams(operation, params) # "ok"
  THEN [n |-> JCursor_finish(n, c), r |-> Raise(NativeExc("ProgrammingError", "parameter count"))]
  ELSE LET rs == [open |-> IsQuery(operation),
                  rows |-> ResultRows(operation, params.items),
                  rowcount |-> IF IsQuery(operation) THEN -1 ELSE 1,
                  description |-> IF IsQuery(operation)
                                  THEN Description(ResultColumns(operation))
                                  ELSE NoDescription]
            m == IF IsQuery(operation) THEN n ELSE InsertRows(n, {params.items[1]})
       IN  [n |-> [m EXCEPT !.cur[c].rs = rs], r |-> Ok("unit", <<>>)]

\* jpype Cursor.executemany: _validate(), _finish(), every parameter set bound
\* and added to the batch, one executeBatch; no result set, _rowcount is the sum
\* of the update counts
JCursor_executemany(n, c, t, operation, seq) ==
  IF JCursor_validate(n, c, t) # "ok"
  THEN [n |-> n, r |-> Raise(NativeExc("ProgrammingError", JCursor_validate(n, c, t)))]
  ELSE IF seq.kind # "seq"
  THEN [n |-> JCursor_finish(n, c), r |-> Raise(NativeExc("InterfaceError", "no parameter sets"))]
  ELSE IF \E i \in 1..Len(seq.items) : seq.items[i].kind = "map"
  THEN [n |-> JCursor_finish(n, c),
        r |-> Raise(NativeExc("InterfaceError", "mapping parameters not supported"))]
  ELSE IF operation # "INSERT ?"
          \/ \E i \in 1..Len(seq.items) : JCursor_setParams(operation, seq.items[i]) # "ok"
  THEN [n |-> JCursor_finish(n, c), r |-> Raise(NativeExc("ProgrammingError", "batch error"))]
  ELSE LET m == InsertRows(n, {seq.items[i].items[1] : i \in 1..Len(seq.items)})
       IN  [n |-> [m EXCEPT !.cur[c].rs = [NoRs EXCEPT !.rowcount = Len(seq.items)]],
            r |-> Ok("unit", <<>>)]

\* jpype Cursor.fetchone: _check_executed(), then the next row (a list) or None
JCursor_fetchone(n, c, t) ==
  IF JCursor_check_executed(n, c, t) # "ok"
  THEN [n |-> n, r |-> Raise(NativeExc("ProgrammingError", JCursor_check_executed(n, c, t)))]
  ELSE IF n.cur[c].rs.rows = <<>>
  THEN [n |-> n, r |-> Ok("None", <<>>)]
  ELSE [n |-> [n EXCEPT !.cur[c].rs.rows = Tail(@)],
        r |-> Ok("jrow", <<Head(n.cur[c].rs.rows)>>)]

\* number of rows fetchmany(size) takes: for i in range(size) while rows remain
Take(size, rows) ==
  IF size <= 0 THEN 0 ELSE IF size < Len(rows) THEN size ELSE Len(rows)

\* what the JDBC driver does with a negative fetch size: it is ignored, or
\* rejected with an SQLException that surfaces wrapped or as it is
NegativeSizeOutcomes == {"empty", "OperationalError", "SQLException"}

\* jpype Cursor.fetchmany(size): size is used as given unless it is None
JCursor_fetchmany(n, c, t, size, neg) ==
  IF JCursor_check_executed(n, c, t) # "ok"
  THEN [n |-> n, r |-> Raise(NativeExc("ProgrammingError", JCursor_check_executed(n, c, t)))]
  ELSE IF size < 0 /\ neg # "empty"
  THEN [n |-> n, r |-> Raise(NativeExc(neg, "fetch size"))]
  ELSE LET k == Take(size, n.cur[c].rs.rows)
       IN  [n |-> [n EXCEPT !.cur[c].rs.rows = SubSeq(@, k + 1, Len(@))],
            r |-> Ok("jrows", SubSeq(n.cur[c].rs.rows, 1, k))]

\* jpype Cursor.fetchall
JCursor_fetchall(n, c, t) ==
  IF JCursor_check_executed(n, c, t) # "ok"
  THEN [n |-> n, r |-> Raise(NativeExc("ProgrammingError", JCursor_check_executed(n, c, t)))]
  ELSE [n |-> [n EXCEPT !.cur[c].rs.rows = <<>>],
        r |-> Ok("jrows", n.cur[c].rs.rows)]

\* jpype Cursor.__iter__ followed by one next(): _check_executed(), then a row
\* or StopIteration
JCursor_iter_next(n, c, t) ==
  IF JCursor_check_executed(n, c, t) # "ok"
  THEN [n |-> n, r |-> Raise(NativeExc("ProgrammingError", JCursor_check_executed(n, c, t)))]
  ELSE IF n.cur[c].rs.rows = <<>>
  THEN [n |-> n, r |-> Ok("StopIteration", <<>>)]
  ELSE [n |-> [n EXCEPT !.cur[c].rs.rows = Tail(@)],
        r |-> Ok("jrow", <<Head(n.cur[c].rs.rows)>>)]

\* jpype Cursor.rowcount
JCursor_rowcount(n, c) == [n |-> n, r |-> Ok("int", <<n.cur[c].rs.rowcount>>)]

\* jpype Cursor.description
JCursor_description(n, c) ==
  [n |-> n,
   r |-> IF n.cur[c].rs.description.isNone THEN Ok("None", <<>>)
         ELSE Ok("description", n.cur[c].rs.description.columns)]

\* jpype Cursor.arraysize (getter, setter)
JCursor_get_arraysize(n, c) == [n |-> n, r |-> Ok("int", <<n.cur[c].arraysize>>)]

JCursor_set_arraysize(n, c, size) ==
  [n |-> [n EXCEPT !.cur[c].arraysize = size], r |-> Ok("unit", <<>>)]

\* ------------------------------------------------ synchronous Connection
\* mutant: close() returns without closing the native connection
Connection_close_noop(n) == [n |-> n, r |-> Ok("unit", <<>>)]

\* Connection.close
Connection_close(n) == wrap_errors(JConnection_close(n))

\* mutant: commit() returns without committing
Connection_commit_noop(n, fail) == [n |-> n, r |-> Ok("unit", <<>>)]

\* Connection.commit
Connection_commit(n, fail) == wrap_errors(JConnection_commit(n, fail))

\* Connection.rollback
Connection_rollback(n, fail) == wrap_errors(JConnection_rollback(n, fail))

\* Connection.cursor
Connection_cursor(n, c, t) == wrap_errors(JConnection_cursor(n, c, t))

\* Connection.autocommit (getter)
Connection_get_autocommit(n) == wrap_errors(JConnection_get_autocommit(n))

\* Connection.autocommit (setter)
Connection_set_autocommit(n, value) == wrap_errors(JConnection_set_autocommit(n, value))

\* AsyncConnection.autocommit (getter, setter): the property of the synchronous
\* connection, read and written on the calling thread
AsyncConnection_get_autocommit(n) == Connection_get_autocommit(n)

AsyncConnection_set_autocommit(n, value) == Connection_set_autocommit(n, value)

\* autocommit getter of the SQLAlchemy adapter connection: it reads
\* self._connection, an attribute that neither the adapter (which stores the
\* wrapped connection as _conection) nor the wrapped connection has
AdapterConnection_get_autocommit(n) ==
  [n |-> n, r |-> Raise(PythonExc("AttributeError", "_connection"))]

\* autocommit setter of the SQLAlchemy adapter connection
AdapterConnection_set_autocommit(n, value) == AsyncConnection_set_autocommit(n, value)

\* Connection.is_closed
Connection_is_closed(n) == n.closed \/ n.jcx

\* ------------------------------------------------------------------ Cursor
\* list(parameters.values()): the list of the values of a Mapping, in iteration
\* order
MappingValues(parameters) ==
  SeqParams([i \in 1..Len(parameters.keys) |-> parameters.items[i]])

\* "if isinstance(parameters, Mapping): parameters = list(parameters.values())"
FlattenMapping(parameters) ==
  IF parameters.kind = "map" THEN MappingValues(parameters) ELSE parameters

\* "list(parameters) if parameters else None"
ParamList(parameters) ==
  IF parameters.kind # "none" /\ Len(parameters.items) > 0
  THEN SeqParams(parameters.items)
  ELSE NoParams

\* mutant: the values of a Mapping are taken in reverse iteration order
ExecuteArgsReversed(parameters) ==
  IF parameters.kind = "map"
  THEN SeqParams([i \in 1..Len(parameters.items) |->
                    parameters.items[Len(parameters.items) + 1 - i]])
  ELSE ParamList(parameters)

\* Cursor._execute: the second argument of self._jpype_cursor.execute
ExecuteArgs(parameters) == ParamList(FlattenMapping(parameters))

\* Cursor._executemany: the second argument of self._jpype_cursor.executemany;
\* the Mapping test is made on the sequence of parameter sets itself
ExecutemanyArgs(seq_of_parameters) == ParamList(FlattenMapping(seq_of_parameters))

\* tuple(fetch) / [tuple(row) for row in fetch]
Tuples(o) ==
  IF o.r.status = "ok" /\ o.r.vtag = "jrow" THEN [o EXCEPT !.r.vtag = "row"]
  ELSE IF o.r.status = "ok" /\ o.r.vtag = "jrows" THEN [o EXCEPT !.r.vtag = "rows"]
  ELSE o

\* Cursor.close
Cursor_close(n, c, t) == wrap_errors(JCursor_close(n, c, t))

\* mutant: the parameters of the call are replaced by a list kept from elsewhere
Cursor_execute_stale(n, c, t, operation, parameters) ==
  wrap_errors(JCursor_execute(n, c, t, operation, SeqParams(<<1>>)))

\* Cursor._execute
Cursor_execute(n, c, t, operation, parameters) ==
  wrap_errors(JCursor_execute(n, c, t, operation, ExecuteArgs(parameters)))

\* Cursor._executemany
Cursor_executemany(n, c, t, operation, seq) ==
  wrap_errors(JCursor_executemany(n, c, t, operation, ExecutemanyArgs(seq)))

\* mutant: fetchone hands out the row after the next one
Cursor_fetchone_skip(n, c, t) ==
  wrap_errors(Tuples(JCursor_fetchone(JCursor_fetchone(n, c, t).n, c, t)))

\* Cursor.fetchone: None stays None, a row becomes a tuple
Cursor_fetchone(n, c, t) == wrap_errors(Tuples(JCursor_fetchone(n, c, t)))

\* Cursor.fetchmany: size (default -1) goes to the native fetchmany as it is
Cursor_fetchmany(n, c, t, size, neg) ==
  wrap_errors(Tuples(JCursor_fetchmany(n, c, t, size, neg)))

\* Cursor.fetchall
Cursor_fetchall(n, c, t) == wrap_errors(Tuples(JCursor_fetchall(n, c, t)))

\* fetchmany of the asynchronous cursor: the synchronous fetchmany, run through
\* the bridge
AsyncCursor_fetchmany(n, c, t, size, neg) == Cursor_fetchmany(n, c, t, size, neg)

\* fetchmany of the SQLAlchemy adapter cursor: "await self._cursor.fetchmany()"
AdapterCursor_fetchmany(n, c, t, size, neg) ==
  AsyncCursor_fetchmany(n, c, t, DefaultSize, neg)

\* mutant: rowcount is kept by the wrapper and never updated
Cursor_rowcount_initial(n, c) == [n |-> n, r |-> Ok("int", <<-1>>)]

\* Cursor.rowcount
Cursor_rowcount(n, c) == wrap_errors(JCursor_rowcount(n, c))

\* mutant: description is only ever None
Cursor_description_none(n, c) == [n |-> n, r |-> Ok("None", <<>>)]

\* Cursor.description
Cursor_description(n, c) == wrap_errors(JCursor_description(n, c))

\* Cursor.arraysize (getter)
Cursor_get_arraysize(n, c) == wrap_errors(JCursor_get_arraysize(n, c))

\* mutant: the assigned size is not handed to the native cursor
Cursor_set_arraysize_dropped(n, c, size) == [n |-> n, r |-> Ok("unit", <<>>)]

\* Cursor.arraysize (setter)
Cursor_set_arraysize(n, c, size) == wrap_errors(JCursor_set_arraysize(n, c, size))

\* Cursor.__iter__ and the first next() on it: no wrap_errors on this path
Cursor_iter_next(n, c, t) == JCursor_iter_next(n, c, t)

\* mutant: only the locally tracked flag is consulted
Cursor_is_closed_local_only(n, c) == n.cur[c].closed

\* Cursor.is_closed
Cursor_is_closed(n, c) == n.cur[c].closed \/ n.jcx

\* ------------------------------------------------------------ the callers
NoTask == [pc |-> "idle", api |-> "none", err |-> NoExc, orig |-> NoExc, depth |-> 0]
\* no call observed; no key registered
\* api, args, size, omitted: the call and its arguments; nargs: the parameters
\* handed to the native cursor; arraysize, want: the cursor's arraysize and the
\* rows of its result not yet fetched when the call was made; r: what the caller
\* got.  History of the cursor: remaining (rows of the last result not yet
\* handed to the caller), live (the last execute returned a result set),
\* affected (rows written by the last execute, -1 if it was no DML), everDml,
\* cols (metadata of the last execute's result), assigned (last arraysize set)
NoObs ==
  [api |-> "none", args |-> NoParams, nargs |-> NoParams, size |-> 0,
   omitted |-> FALSE, arraysize |-> 1, want |-> <<>>, r |-> Ok("none", <<>>),
   remaining |-> <<>>, live |-> FALSE, affected |-> -1, everDml |-> FALSE,
   cols |-> NoDescription, assigned |-> 1]
\* the dtype of a pipeline class: a type or a string
Dtype(isstr, name) == [isstr |-> isstr, name |-> name]
Dtypes == {Dtype(FALSE, "int"), Dtype(TRUE, "int"), Dtype(TRUE, "INT")}
NoDtype == Dtype(TRUE, "")

\* the native types a pipeline class names
Jtypes == {"JInt", "JLong"}
JtypesInputs == {<<>>, <<"JInt">>, <<"JLong", "JInt">>}

\* native JDBC types: name and type code (NULL has type code 0)
JdbcType(name, code) == [name |-> name, code |-> code]
JdbcTypes == {JdbcType("INTEGER", 4), JdbcType("NULL", 0)}
NoJdbcType == JdbcType("", 0)
PythonTypes == {"int", "str"}

\* the built-in pipeline classes: the qualified name of dtype, jtypes
BuiltinPipelines ==
  << [dtype |-> "object", jtypes |-> <<"JObject", "java.lang.Object">>],
     [dtype |-> "NoneType", jtypes |-> <<>>],
     [dtype |-> "bool", jtypes |-> <<"JBoolean", "java.lang.Boolean">>],
     [dtype |-> "str",
      jtypes |-> <<"JString", "JChar", "java.lang.String", "java.sql.Clob">>],
     [dtype |-> "bytes", jtypes |-> <<"JByte", "JArray(JByte)", "java.sql.Blob">>],
     [dtype |-> "int", jtypes |-> <<"JInt", "JLong", "JShort">>],
     [dtype |-> "float", jtypes |-> <<"JFloat", "JDouble">>],
     [dtype |-> "date", jtypes |-> <<"java.sql.Date">>],
     [dtype |-> "time", jtypes |-> <<"java.sql.Time">>],
     [dtype |-> "datetime", jtypes |-> <<"java.sql.Timestamp">>],
     [dtype |-> "Decimal", jtypes |-> <<"java.math.BigDecimal">>] >>

\* the names of the built-in types as written, in lower and in upper case
LetterCases ==
  << <<"object", "object", "OBJECT">>, <<"NoneType", "nonetype", "NONETYPE">>,
     <<"bool", "bool", "BOOL">>, <<"str", "str", "STR">>, <<"bytes", "bytes", "BYTES">>,
     <<"int", "int", "INT">>, <<"float", "float", "FLOAT">>, <<"date", "date", "DATE">>,
     <<"time", "time", "TIME">>, <<"datetime", "datetime", "DATETIME">>,
     <<"Decimal", "decimal", "DECIMAL">> >>

\* str.upper()
Upper(s) ==
  LET known == {i \in 1..Len(LetterCases) : \E j \in 1..3 : LetterCases[i][j] = s}
  IN  IF known = {} THEN s ELSE LetterCases[CHOOSE i \in known : TRUE][3]

\* the key a type object is in a dict: never equal to a string
TypeKey(name) == "<class '" \o name \o "'>"

\* the keys of pipeline._registry, of types._registry and of TypeCodes
PipelineKeys ==
  UNION {{TypeKey(LetterCases[i][1]), LetterCases[i][1], LetterCases[i][3]} \cup
         {BuiltinPipelines[i].jtypes[j] : j \in 1..Len(BuiltinPipelines[i].jtypes)} :
         i \in 1..Len(BuiltinPipelines)}
JdbcTypeKeys == {j.name : j \in JdbcTypes}

\* registered objects are known by the order of their creation; 0: no object
NoObject == 0
NoCode == 0
NoRegistry ==
  [pipeline   |-> [k \in PipelineKeys |-> NoObject],
   types      |-> [k \in JdbcTypeKeys |-> NoObject],
   type_codes |-> [k \in JdbcTypeKeys |-> NoCode]]

\* mutant: the key is assigned whether it is present or not
setdefault_overwrite(d, key, value) == [d EXCEPT ![key] = value]

\* dict.setdefault(key, value), for the dict it leaves behind
setdefault(d, key, value) ==
  IF d[key] = NoObject THEN [d EXCEPT ![key] = value] ELSE d

RECURSIVE setdefault_each(_, _, _)
\* for jtype in jtypes: _registry.setdefault(jtype, self)
setdefault_each(d, keys, value) ==
  IF keys = <<>> THEN d
  ELSE setdefault_each(setdefault(d, Head(keys), value), Tail(keys), value)

\* BasePipeline.__init__
BasePipeline_init(reg, self, dtype, jtypes) ==
  LET dtype_str == dtype.name
      r1 == setdefault(reg.pipeline, IF dtype.isstr THEN dtype.name ELSE TypeKey(dtype.name),
                       self)
      r2 == setdefault(r1, Upper(dtype_str), self)
  IN  [reg EXCEPT !.pipeline = setdefault_each(r2, jtypes, self)]

\* mutant: a name is looked up as it is written
get_type_pipeline_verbatim(reg, dtype) ==
  IF dtype.kind = "pipeline" THEN Ok("object", <<dtype.key>>)
  ELSE IF reg.pipeline[dtype.key] = NoObject
       THEN Raise(PythonExc("KeyError", dtype.key))
       ELSE Ok("object", <<reg.pipeline[dtype.key]>>)

\* get_type_pipeline(dtype): dtype is a pipeline object, a name (str) or another
\* dict key (a type, a native class)
get_type_pipeline(reg, dtype) ==
  LET key == IF dtype.kind = "str" THEN Upper(dtype.key) ELSE dtype.key
  IN  IF dtype.kind = "pipeline" THEN Ok("object", <<dtype.key>>)
      ELSE IF key \notin DOMAIN reg.pipeline \/ reg.pipeline[key] = NoObject
           THEN Raise(PythonExc("KeyError", key))
           ELSE Ok("object", <<reg.pipeline[key]>>)

\* WrappedJDBCType.__init__
WrappedJDBCType_init(reg, self, jdbc_type, python_type) ==
  LET codes == IF jdbc_type.name # "" /\ jdbc_type.code # 0
               THEN setdefault(reg.type_codes, jdbc_type.name, jdbc_type.code)
               ELSE reg.type_codes
  IN  [reg EXCEPT !.type_codes = codes,
                  !.types = setdefault(reg.types, jdbc_type.name, self)]

\* no function applied yet
NoFn == [name |-> "none"]

\* driver class names, the module (jar) that holds each
DriverNames == {"D1", "D2"}
Requires(driver) == IF driver = "D1" THEN "m1.jar" ELSE "m2.jar"
ModulesInputs == {{}, {"m1.jar"}, {"m2.jar"}}

\* no driver instance
NoDriver == 0

\* where a thread is inside Java.start / Java.attach / connect
IdleJ == [at |-> "idle", call |-> "none", driver |-> "", modules |-> {}]

\* the process before the native runtime is started: jpype.isJVMStarted(), the
\* threads attached, the classpath, DriverManager's drivers, _driver_registry;
\* history: the calls of jpype.startJVM that started a runtime and of
\* Thread.attach()
NoJava ==
  [started |-> FALSE, attached |-> {}, classpath |-> {}, drivers |-> <<>>,
   cache |-> [d \in DriverNames |-> NoDriver], starts |-> 0,
   attachCalls |-> [t \in Threads |-> 0], pc |-> [t \in Threads |-> IdleJ]]

NoXlate == [phase |-> "idle", in |-> Ok("none", <<>>), out |-> Ok("none", <<>>)]

\* the calls that close something
CloseApis ==
  {"Connection.close", "Connection.__exit__", "Cursor.close", "Cursor.__exit__",
   "AsyncConnection.close", "AsyncConnection.__aexit__"}

\* the autocommit properties of the three connection wrappers
AutocommitGetters ==
  {"Connection.autocommit", "AsyncConnection.autocommit", "AdapterConnection.autocommit"}
AutocommitSetters ==
  {"Connection.autocommit=", "AsyncConnection.autocommit=", "AdapterConnection.autocommit="}

\* what the caller of a completed call observed.  wasClosed: the object a close
\* call was made on was closed already; expect: the value the caller of fetchone
\* bound in its execute; nthread: the thread the native call was made on;
\* orig: the error the operation dispatched by _safe_run_in_thread raised;
\* shield: the error passed through the CancelScope(shield=True) block
Call(caller, api, r, nthread) ==
  [caller |-> caller, api |-> api, status |-> r.status,
   vtag |-> r.vtag, value |-> r.value, exc |-> r.exc,
   wasClosed |-> IF api \in {"Cursor.close", "Cursor.__exit__"} THEN cur[caller].closed
                 ELSE IF api \in CloseApis \cup AutocommitGetters \cup AutocommitSetters
                 THEN Connection_is_closed(Native)
                 ELSE FALSE,
   expect |-> IF api = "Cursor.fetchone" THEN bound[caller] ELSE 0,
   nthread |-> nthread, orig |-> NoExc, shield |-> FALSE]

NoCall ==
  [caller |-> NoThread, api |-> "none", status |-> "ok",
   vtag |-> "none", value |-> <<>>, exc |-> NoExc,
   wasClosed |-> FALSE, expect |-> 0, nthread |-> NoThread,
   orig |-> NoExc, shield |-> FALSE]

\* the native objects right after connect(): open, auto-commit off, no cursor
InitNative ==
  /\ jcxClosed = FALSE
  /\ connClosed = FALSE
  /\ cur = [c \in Cursors |-> NoCursor]
  /\ jAutoCommit = FALSE
  /\ db = NoDb

\* no caller has made a call yet
InitCallers ==
  /\ bound = [c \in Cursors |-> 0]
  /\ closeCalled = FALSE
  /\ last = NoCall
  /\ task = [a \in Tasks |-> NoTask]

\* one connection, no call made, nothing registered
InitIdle ==
  /\ InitNative
  /\ InitCallers
  /\ xlate = NoXlate
  /\ obs = NoObs
  /\ hist = <<>>
  /\ registry = NoRegistry

Init ==
  /\ InitNative
  /\ InitCallers
  /\ xlate = NoXlate
  /\ obs = NoObs
  /\ hist = <<>>
  /\ registry = NoRegistry
  /\ queue = {}
  /\ fn = NoFn
  /\ java = NoJava

\* the native objects after a call
Store(o) ==
  /\ jcxClosed' = o.n.jcx
  /\ connClosed' = o.n.closed
  /\ cur' = o.n.cur
  /\ jAutoCommit' = o.n.autocommit
  /\ db' = o.n.db

\* a call on the connection by thread t
ConnCall(t, api, o) ==
  /\ Store(o)
  /\ last' = Call(t, api, o.r, t)
  /\ UNCHANGED <<bound, task, xlate, obs, hist, registry, queue, fn, java>>

\* a call by thread t on the cursor it holds; the history of what fetchone is
\* to return ends when rows were handed out or the cursor is re-executed or closed
CurCall(t, api, o, v) ==
  /\ cur[t].exists
  /\ Store(o)
  /\ last' = Call(t, api, o.r, t)
  /\ bound' = [bound EXCEPT ![t] =
                 IF v # 0 THEN v
                 ELSE IF o.r.value # <<>>
                         \/ api \in {"Cursor.execute", "Cursor.executemany",
                                     "Cursor.close", "Cursor.__exit__"}
                 THEN 0
                 ELSE @]
  /\ UNCHANGED <<closeCalled, task, xlate, obs, hist, registry, queue, fn, java>>

\* conn.close()
DoConnectionClose(t) ==
  /\ ConnCall(t, "Connection.close", Connection_close(Native))
  /\ closeCalled' = TRUE

\* leaving "with conn:": Connection.__exit__ calls self.close()
DoConnectionExit(t) ==
  /\ ConnCall(t, "Connection.__exit__", Connection_close(Native))
  /\ closeCalled' = TRUE

\* conn.commit()
DoConnectionCommit(t) ==
  \E fail \in BOOLEAN :
    /\ ConnCall(t, "Connection.commit", Connection_commit(Native, fail))
    /\ UNCHANGED closeCalled

\* conn.rollback()
DoConnectionRollback(t) ==
  \E fail \in BOOLEAN :
    /\ ConnCall(t, "Connection.rollback", Connection_rollback(Native, fail))
    /\ UNCHANGED closeCalled

\* cursor = conn.cursor(): the caller's previous cursor object, if any, is dropped
DoConnectionCursor(t) ==
  LET o == Connection_cursor(Native, t, t)
  IN  /\ Store(o)
      /\ last' = Call(t, "Connection.cursor", o.r, t)
      /\ bound' = [bound EXCEPT ![t] = IF o.r.status = "ok" THEN 0 ELSE @]
      /\ UNCHANGED <<closeCalled, task, xlate, obs, hist, registry, queue, fn, java>>

\* cursor.close()
DoCursorClose(t) ==
  CurCall(t, "Cursor.close", Cursor_close(Native, t, t), 0)

\* leaving "with cursor:": Cursor.__exit__ calls self.close()
DoCursorExit(t) ==
  CurCall(t, "Cursor.__exit__", Cursor_close(Native, t, t), 0)

\* cursor.execute(operation, [v])
DoCursorExecute(t) ==
  \E operation \in Statements, v \in Values :
    LET o == Cursor_execute(Native, t, t, operation, SeqParams(<<v>>))
    IN  /\ operation # "SELECT ?" => v = 1
        /\ CurCall(t, "Cursor.execute", o,
                   IF o.r.status = "ok" /\ operation = "SELECT ?" THEN v ELSE 0)

\* cursor.executemany(operation, [[1], [2]])
DoCursorExecutemany(t) ==
  \E operation \in Statements :
    CurCall(t, "Cursor.executemany",
            Cursor_executemany(Native, t, t, operation,
                               SeqParams(<<SeqParams(<<1>>), SeqParams(<<2>>)>>)), 0)

\* cursor.fetchone()
DoCursorFetchone(t) ==
  CurCall(t, "Cursor.fetchone", Cursor_fetchone(Native, t, t), 0)

\* cursor.fetchmany(size)
DoCursorFetchmany(t) ==
  \E size \in FetchSizes, neg \in NegativeSizeOutcomes :
    /\ size >= 0 => neg = "empty"
    /\ CurCall(t, "Cursor.fetchmany", Cursor_fetchmany(Native, t, t, size, neg), 0)

\* cursor.fetchall()
DoCursorFetchall(t) ==
  CurCall(t, "Cursor.fetchall", Cursor_fetchall(Native, t, t), 0)

\* next(iter(cursor))
DoCursorIter(t) ==
  CurCall(t, "Cursor.__iter__", Cursor_iter_next(Native, t, t), 0)

Next ==
  \/ \E t \in Threads : DoConnectionClose(t)
  \/ \E t \in Threads : DoConnectionExit(t)
  \/ \E t \in Threads : DoConnectionCommit(t)
  \/ \E t \in Threads : DoConnectionRollback(t)
  \/ \E t \in Threads : DoConnectionCursor(t)
  \/ \E t \in Threads : DoCursorClose(t)
  \/ \E t \in Threads : DoCursorExit(t)
  \/ \E t \in Threads : DoCursorExecute(t)
  \/ \E t \in Threads : DoCursorExecutemany(t)
  \/ \E t \in Threads : DoCursorFetchone(t)
  \/ \E t \in Threads : DoCursorFetchmany(t)
  \/ \E t \in Threads : DoCursorFetchall(t)
  \/ \E t \in Threads : DoCursorIter(t)

\* synchronous callers sharing one connection
Spec == Init /\ [][Next]_vars

\* -------------------------------------------- one caller and its cursor
\* the caller and the cursor it holds (the sync_cursor fixture)
Owner == Id("thread", 1)

\* sequences without a repeated element
Distinct(f) == \A i, j \in 1..Len(f) : i # j => f[i] # f[j]

\* the parameter objects a caller passes to execute
SeqInputs == {SeqParams(f) : f \in UNION {[1..k -> Values] : k \in 1..MaxParams}}

MapInputs ==
  UNION {{MapParams(keys, values) : values \in [1..Len(keys) -> Values]} :
           keys \in {g \in UNION {[1..k -> ParamKeys] : k \in 0..MaxParams} : Distinct(g)}}

ParamInputs == {NoParams} \cup SeqInputs \cup MapInputs

\* the sequences of parameter sets a caller passes to executemany
SetInputs ==
  {SeqParams(<<v>>) : v \in Values}
  \cup {MapParams(<<"a">>, <<v>>) : v \in Values}

SeqOfSetInputs == {SeqParams(f) : f \in UNION {[1..k -> SetInputs] : k \in 1..MaxSets}}

\* the same, every set a sequence
SeqOfSeqInputs ==
  {SeqParams(f) :
     f \in UNION {[1..k -> {SeqParams(<<v>>) : v \in Values}] : k \in 1..MaxSets}}

\* the positional parameters that fit a statement
FittingParams(operation) ==
  IF operation = "INVALID" \/ ParamCount(operation) = 0 THEN {NoParams}
  ELSE {SeqParams(f) : f \in [1..ParamCount(operation) -> Values]}

ArraySizes == 1..MaxRows

\* the values a parameter object binds, in order
Bound(parameters) == parameters.items

InitCursor ==
  /\ jcxClosed = FALSE
  /\ connClosed = FALSE
  /\ cur = [c \in Cursors |->
              IF c = Owner THEN [NoCursor EXCEPT !.exists = TRUE, !.thread = Owner]
              ELSE NoCursor]
  /\ jAutoCommit = FALSE
  /\ db = NoDb
  /\ InitCallers
  /\ xlate = NoXlate
  /\ obs = NoObs
  /\ hist = <<>>
  /\ registry = NoRegistry
  /\ queue = {}
  /\ fn = NoFn
  /\ java = NoJava

\* a call on the cursor: the native objects afterwards, what the caller observed
CursorStep(o, seen) ==
  /\ Store(o)
  /\ obs' = [seen EXCEPT !.arraysize = cur[Owner].arraysize, !.want = obs.remaining,
                         !.r = o.r]
  /\ UNCHANGED <<bound, closeCalled, last, task, xlate, hist, registry, queue, fn, java>>

\* the record of a call that leaves the history of the cursor as it is
Seen(api) ==
  [obs EXCEPT !.api = api, !.args = NoParams, !.nargs = NoParams, !.size = 0,
              !.omitted = FALSE]

\* the history once rows were handed to the caller
Fetched(seen, o) ==
  IF o.r.status = "ok" /\ o.r.vtag \in {"row", "jrow"}
  THEN [seen EXCEPT !.remaining = Tail(@)]
  ELSE IF o.r.status = "ok" /\ o.r.vtag \in {"rows", "jrows"}
  THEN [seen EXCEPT !.remaining = SubSeq(@, Len(o.r.value) + 1, Len(@))]
  ELSE seen

\* the history after an execute that did not succeed, or a close
Reset(seen) ==
  [seen EXCEPT !.remaining = <<>>, !.live = FALSE, !.affected = -1,
               !.cols = NoDescription]

\* cursor.execute(operation, parameters) and what it leaves to fetch
ExecuteCall(operation, parameters) ==
  LET o == Cursor_execute(Native, Owner, Owner, operation, parameters)
      seen == [Seen("Cursor.execute") EXCEPT
                 !.args = parameters, !.nargs = ExecuteArgs(parameters)]
  IN  CursorStep(o,
        IF o.r.status # "ok" THEN Reset(seen)
        ELSE IF IsQuery(operation)
        THEN [seen EXCEPT !.remaining = ResultRows(operation, Bound(parameters)),
                          !.live = TRUE, !.affected = -1,
                          !.cols = Description(ResultColumns(operation))]
        ELSE [seen EXCEPT !.remaining = <<>>, !.live = FALSE, !.affected = 1,
                          !.everDml = TRUE, !.cols = NoDescription])

\* cursor.executemany(operation, seq_of_parameters)
ExecutemanyCall(operation, seq) ==
  LET o == Cursor_executemany(Native, Owner, Owner, operation, seq)
      seen == [Seen("Cursor.executemany") EXCEPT
                 !.args = seq, !.nargs = ExecutemanyArgs(seq)]
  IN  CursorStep(o,
        IF o.r.status # "ok" THEN Reset(seen)
        ELSE [seen EXCEPT !.remaining = <<>>, !.live = FALSE,
                          !.affected = Len(seq.items), !.everDml = TRUE,
                          !.cols = NoDescription])

\* cursor.execute(operation, parameters) with parameters that fit the statement
CExecute ==
  \E operation \in AllStatements \ {"SELECT ?, ?"} :
  \E parameters \in FittingParams(operation) :
    ExecuteCall(operation, parameters)

\* cursor.executemany(operation, seq_of_parameters), every set a sequence
CExecutemany ==
  \E operation \in DmlStatements \cup {"INVALID"}, seq \in SeqOfSeqInputs :
    ExecutemanyCall(operation, seq)

\* cursor.fetchone()
CFetchone ==
  LET o == Cursor_fetchone(Native, Owner, Owner)
  IN  CursorStep(o, Fetched(Seen("Cursor.fetchone"), o))

\* cursor.fetchmany(size)
CFetchmany ==
  \E size \in ArraySizes :
    LET o == Cursor_fetchmany(Native, Owner, Owner, size, "empty")
    IN  CursorStep(o, Fetched([Seen("Cursor.fetchmany") EXCEPT !.size = size], o))

\* cursor.fetchmany()
CFetchmanyDefault ==
  \E neg \in NegativeSizeOutcomes :
    LET o == Cursor_fetchmany(Native, Owner, Owner, DefaultSize, neg)
    IN  CursorStep(o, Fetched([Seen("Cursor.fetchmany") EXCEPT !.omitted = TRUE], o))

\* cursor.fetchmany(size) on the cursor of the SQLAlchemy async adapter
CAdapterFetchmany ==
  \E size \in ArraySizes, neg \in NegativeSizeOutcomes :
    LET o == AdapterCursor_fetchmany(Native, Owner, Owner, size, neg)
    IN  CursorStep(o, Fetched([Seen("AsyncCursor.fetchmany") EXCEPT !.size = size], o))

\* cursor.fetchall()
CFetchall ==
  LET o == Cursor_fetchall(Native, Owner, Owner)
  IN  CursorStep(o, Fetched(Seen("Cursor.fetchall"), o))

\* cursor.rowcount
CRowcount == CursorStep(Cursor_rowcount(Native, Owner), Seen("Cursor.rowcount"))

\* cursor.description
CDescription == CursorStep(Cursor_description(Native, Owner), Seen("Cursor.description"))

\* cursor.arraysize
CGetArraysize == CursorStep(Cursor_get_arraysize(Native, Owner), Seen("Cursor.arraysize"))

\* cursor.arraysize = size
CSetArraysize ==
  \E size \in ArraySizes :
    LET o == Cursor_set_arraysize(Native, Owner, size)
    IN  CursorStep(o, [Seen("Cursor.arraysize=") EXCEPT !.size = size, !.assigned = size])

\* cursor.close()
CClose ==
  LET o == Cursor_close(Native, Owner, Owner)
  IN  CursorStep(o, Reset(Seen("Cursor.close")))

NextCursor ==
  \/ CExecute
  \/ CExecutemany
  \/ CFetchone
  \/ CFetchmany
  \/ CFetchmanyDefault
  \/ CAdapterFetchmany
  \/ CFetchall
  \/ CRowcount
  \/ CDescription
  \/ CGetArraysize
  \/ CSetArraysize
  \/ CClose

\* one caller working with its cursor
SpecCursor == InitCursor /\ [][NextCursor]_vars

\* ------------------------------------------------------ the type registries
\* a registered object, as it was constructed
Registration(kind, dtype, jtypes, jdbc_type, python_type) ==
  [kind |-> kind, dtype |-> dtype, jtypes |-> jtypes, jdbc_type |-> jdbc_type,
   python_type |-> python_type]

\* an object is constructed: it is the next object, and it registers itself
Register(reg, object) ==
  /\ Len(hist) < MaxOps
  /\ registry' = reg
  /\ hist' = Append(hist, object)
  /\ UNCHANGED <<jcxClosed, connClosed, cur, bound, closeCalled, last, task, xlate,
                 jAutoCommit, db, obs, queue, fn, java>>

\* cls() for a pipeline class
RPipeline ==
  \E dtype \in Dtypes, jtypes \in JtypesInputs :
    Register(BasePipeline_init(registry, Len(hist) + 1, dtype, jtypes),
             Registration("pipeline", dtype, jtypes, NoJdbcType, ""))

\* WrappedJDBCType(jdbc_type, python_type)
RWrappedType ==
  \E jdbc_type \in JdbcTypes, python_type \in PythonTypes :
    Register(WrappedJDBCType_init(registry, Len(hist) + 1, jdbc_type, python_type),
             Registration("wrapped", NoDtype, <<>>, jdbc_type, python_type))

NextRegistry ==
  \/ RPipeline
  \/ RWrappedType

\* registrations into the empty registries
SpecRegistry == Init /\ [][NextRegistry]_vars

\* ------------------------------------------- initialisation of the pipelines
\* the module is imported: every built-in class is queued (__init_subclass__)
InitPipeline ==
  /\ InitIdle
  /\ queue = 1..Len(BuiltinPipelines)
  /\ fn = NoFn
  /\ java = NoJava

\* _init_pipeline: the next class of the queue, a set, is instantiated
IInstantiate ==
  \E cls \in queue :
    /\ queue' = queue \ {cls}
    /\ registry' = BasePipeline_init(registry, cls,
                                     Dtype(FALSE, BuiltinPipelines[cls].dtype),
                                     BuiltinPipelines[cls].jtypes)
    /\ UNCHANGED <<jcxClosed, connClosed, cur, bound, closeCalled, last, task, xlate,
                   jAutoCommit, db, obs, hist, fn, java>>

NextPipeline == IInstantiate

SpecPipeline == InitPipeline /\ [][NextPipeline]_vars

\* ------------------------------------------------------- dialect settings
\* the sentinel of a field that was not given; getattr's default
Unset == "unset"
Missing == "MISSING"

\* the declared fields of a settings record other than inherit, name, driver
SettingsFields == {"is_async", "jdbc_dsn_prefix", "colspecs", "supports_alter"}

\* a class to inherit from: its name, its driver, its attributes
Dialect(name, driver, attrs) == [name |-> name, driver |-> driver, attrs |-> attrs]
NoDialect == Dialect("", "", [f \in SettingsFields |-> Missing])

\* a settings record as constructed: inherit is a class or None
Settings(name, driver, hasInherit, inherit, fields) ==
  [name |-> name, driver |-> driver, hasInherit |-> hasInherit, inherit |-> inherit,
   fields |-> fields]

\* mutant: the value of the base replaces the value of the settings
DialectSettings_post_init_overwrite(settings) ==
  IF ~settings.hasInherit THEN settings
  ELSE [settings EXCEPT
          !.fields = [f \in SettingsFields |->
                        IF settings.inherit.attrs[f] # Missing
                        THEN settings.inherit.attrs[f]
                        ELSE settings.fields[f]]]

\* DialectSettings.__post_init__
DialectSettings_post_init(settings) ==
  IF ~settings.hasInherit THEN settings
  ELSE [settings EXCEPT
          !.fields = [f \in SettingsFields |->
                        IF settings.fields[f] # Unset THEN settings.fields[f]
                        ELSE IF settings.inherit.attrs[f] # Missing
                             THEN settings.inherit.attrs[f]
                             ELSE settings.fields[f]]]

\* the values given to a field, the attributes a base has
OwnValues == {Unset, "None", "own"}
BaseValues == {Missing, "None", "base"}

\* ConnectorSettings.__post_init__: the inheritance rule of the settings
ConnectorSettings_post_init(settings) == DialectSettings_post_init(settings)

\* getattr(cls, field) along the bases of a class being created: the first
\* base that defines the field
RECURSIVE BasesAttr(_, _)
BasesAttr(bases, f) ==
  IF bases = <<>> THEN Missing
  ELSE IF Head(bases).attrs[f] # Missing THEN Head(bases).attrs[f]
  ELSE BasesAttr(Tail(bases), f)

\* JDBCConnectorMeta creates a connector class: every field of the resolved
\* settings that is not unset becomes a class attribute, the others are left
\* to the bases
JDBCConnectorMeta_new(settings, bases) ==
  Dialect(settings.name, settings.driver,
          [f \in SettingsFields |->
             IF settings.fields[f] # Unset THEN settings.fields[f]
             ELSE BasesAttr(bases, f)])

\* copy.deepcopy of a field value: None, booleans, strings and types are
\* returned as they are, containers are copied to equal containers, and a
\* plain object() such as the sentinel is rebuilt as a new object, which is
\* neither the sentinel nor equal to it
UnsetCopy == "object() copied from unset"
deepcopy(value) ==
  IF value = Unset THEN UnsetCopy
  ELSE IF value = UnsetCopy THEN "object() copied from a copy of unset"
  ELSE value

\* dataclasses.asdict(settings) without the entry of inherit
asdict(settings) == [f \in SettingsFields |-> deepcopy(settings.fields[f])]

\* JDBCDialectMeta.__new__: the entries of asdict(settings) that are not the
\* sentinel go into the namespace, the others are left to the bases
JDBCDialectMeta_new(settings, bases) ==
  LET as_dict_settings == asdict(settings)
  IN  Dialect(settings.name, settings.driver,
              [f \in SettingsFields |->
                 IF as_dict_settings[f] # Unset THEN as_dict_settings[f]
                 ELSE BasesAttr(bases, f)])

NoFields == [f \in SettingsFields |-> Unset]

\* the dialect families and the SQLAlchemy dialect each builds on
Families == {"sqlite", "postgresql", "mssql"}
SABase(family, attrs) ==
  Dialect(family, "default", [attrs EXCEPT !["jdbc_dsn_prefix"] = Missing])

\* class JDBCConnector: settings inherit DefaultConnector
JDBCConnector(default) ==
  JDBCConnectorMeta_new(
    ConnectorSettings_post_init(
      Settings("jdbc_wrapper_base_connector", "jdbc_wrapper_base_driver", TRUE, default,
               [NoFields EXCEPT !["jdbc_dsn_prefix"] = "jdbc://"])),
    <<default>>)

\* settings of SQJDBCDialect, PGJDBCDialect, MSJDBCDialect
SyncDialectSettings(family, base) ==
  ConnectorSettings_post_init(
    Settings(family, "jdbc_wrapper", TRUE, base,
             CASE family = "sqlite" ->
                    [NoFields EXCEPT !["colspecs"] = "SQJDBC colspecs", !["is_async"] = "False"]
               [] family = "postgresql" ->
                    [NoFields EXCEPT !["jdbc_dsn_prefix"] = "jdbc:postgresql://",
                                     !["is_async"] = "False"]
               [] OTHER ->
                    [NoFields EXCEPT !["jdbc_dsn_prefix"] = "jdbc:sqlserver://",
                                     !["is_async"] = "False"]))

\* mutant: the async sibling gives one more field
AsyncDialectSettings_extra(family, sync) ==
  ConnectorSettings_post_init(
    Settings(family, "jdbc_async_wrapper", TRUE, sync,
             [NoFields EXCEPT !["is_async"] = "True", !["supports_alter"] = "own"]))

\* settings of AsyncSQJDBCDialect, AsyncPGJDBCDialect, AsyncMSJDBCDialect
AsyncDialectSettings(family, sync) ==
  ConnectorSettings_post_init(
    Settings(family, "jdbc_async_wrapper", TRUE, sync,
             CASE family = "sqlite" -> [NoFields EXCEPT !["is_async"] = "True"]
               [] family = "postgresql" ->
                    [NoFields EXCEPT !["jdbc_dsn_prefix"] = sync.attrs["jdbc_dsn_prefix"],
                                     !["is_async"] = "True"]
               [] OTHER ->
                    [NoFields EXCEPT !["jdbc_dsn_prefix"] = "jdbc:sqlserver://",
                                     !["is_async"] = "True"]))

\* the module of a dialect family is about to be imported; the attributes of
\* the SQLAlchemy dialect are whatever SQLAlchemy defines
InitDialects ==
  /\ InitIdle
  /\ queue = {}
  /\ java = NoJava
  /\ \E family \in Families, attrs \in [SettingsFields -> BaseValues] :
       fn = [name |-> "dialects", family |-> family, base |-> SABase(family, attrs),
             default |-> Dialect("default", "default",
                                 [attrs EXCEPT !["jdbc_dsn_prefix"] = Missing,
                                               !["is_async"] = "False"]),
             sync |-> NoDialect, async |-> NoDialect]

\* class XXJDBCDialect(JDBCConnector, XXDialect)
DSyncDialect ==
  /\ fn.name = "dialects"
  /\ fn.sync = NoDialect
  /\ fn' = [fn EXCEPT !.sync =
              JDBCConnectorMeta_new(SyncDialectSettings(fn.family, fn.base),
                                  <<JDBCConnector(fn.default), fn.base>>)]
  /\ UNCHANGED <<jcxClosed, connClosed, cur, bound, closeCalled, last, task, xlate,
                 jAutoCommit, db, obs, hist, registry, queue, java>>

\* class AsyncXXJDBCDialect(XXJDBCDialect)
DAsyncDialect ==
  /\ fn.name = "dialects"
  /\ fn.sync # NoDialect
  /\ fn.async = NoDialect
  /\ fn' = [fn EXCEPT !.async =
              JDBCConnectorMeta_new(AsyncDialectSettings(fn.family, fn.sync), <<fn.sync>>)]
  /\ UNCHANGED <<jcxClosed, connClosed, cur, bound, closeCalled, last, task, xlate,
                 jAutoCommit, db, obs, hist, registry, queue, java>>

NextDialects ==
  \/ DSyncDialect
  \/ DAsyncDialect

SpecDialects == InitDialects /\ [][NextDialects]_vars

\* a settings record is being constructed with any fields, with or without a base
InitSettings ==
  /\ InitIdle
  /\ queue = {}
  /\ java = NoJava
  /\ \E fields \in [SettingsFields -> OwnValues], hasInherit \in BOOLEAN,
        attrs \in [SettingsFields -> BaseValues] :
       /\ ~hasInherit => attrs = NoDialect.attrs
       /\ fn = [name |-> "DialectSettings", done |-> FALSE,
                in |-> Settings("derived", "jdbc_wrapper", hasInherit,
                                Dialect("base", "base_driver", attrs), fields),
                out |-> Settings("", "", FALSE, NoDialect, fields)]

\* the dataclass runs __post_init__
SPostInit ==
  /\ fn.name = "DialectSettings"
  /\ ~fn.done
  /\ fn' = [fn EXCEPT !.done = TRUE, !.out = DialectSettings_post_init(fn.in)]
  /\ UNCHANGED <<jcxClosed, connClosed, cur, bound, closeCalled, last, task, xlate,
                 jAutoCommit, db, obs, hist, registry, queue, java>>

NextSettings == SPostInit

SpecSettings == InitSettings /\ [][NextSettings]_vars

\* ------------------------------------------------ one session: transactions
\* the calls of the session that succeeded, in order
Event(op, v) == [op |-> op, v |-> v]
NoEvent == Event("none", 0)

\* a call of the session: the native objects afterwards, what the caller got;
\* a call that succeeded and changed something is appended to the history
SessionStep(api, o, ev) ==
  /\ ev # NoEvent => Len(hist) < MaxOps
  /\ Store(o)
  /\ last' = Call(Owner, api, o.r, Owner)
  /\ hist' = IF ev # NoEvent /\ o.r.status = "ok" THEN Append(hist, ev) ELSE hist
  /\ UNCHANGED <<bound, closeCalled, task, xlate, obs, registry, queue, fn, java>>

\* cursor.execute("INSERT ...", [v])
TInsert ==
  \E v \in Values :
    SessionStep("Cursor.execute",
                Cursor_execute(Native, Owner, Owner, "INSERT ?", SeqParams(<<v>>)),
                Event("insert", v))

\* conn.commit()
TCommit ==
  \E fail \in BOOLEAN :
    SessionStep("Connection.commit", Connection_commit(Native, fail), Event("commit", 0))

\* conn.rollback()
TRollback ==
  \E fail \in BOOLEAN :
    SessionStep("Connection.rollback", Connection_rollback(Native, fail),
                Event("rollback", 0))

\* conn.close(): the session ends
TClose == SessionStep("Connection.close", Connection_close(Native), Event("close", 0))

\* conn.autocommit = value, through each of the connection wrappers
TSetAutocommit ==
  \E api \in AutocommitSetters, value \in BOOLEAN :
    SessionStep(api,
                IF api = "Connection.autocommit=" THEN Connection_set_autocommit(Native, value)
                ELSE IF api = "AsyncConnection.autocommit="
                THEN AsyncConnection_set_autocommit(Native, value)
                ELSE AdapterConnection_set_autocommit(Native, value),
                Event("autocommit", IF value THEN 1 ELSE 0))

\* conn.autocommit, through each of the connection wrappers
TGetAutocommit ==
  \E api \in AutocommitGetters :
    SessionStep(api,
                IF api = "Connection.autocommit" THEN Connection_get_autocommit(Native)
                ELSE IF api = "AsyncConnection.autocommit"
                THEN AsyncConnection_get_autocommit(Native)
                ELSE AdapterConnection_get_autocommit(Native),
                NoEvent)

NextSession ==
  \/ TInsert
  \/ TCommit
  \/ TRollback
  \/ TClose
  \/ TSetAutocommit
  \/ TGetAutocommit

\* one session on a new connection with a cursor
SpecSession == InitCursor /\ [][NextSession]_vars

\* ------------------------------------------------------- connect arguments
\* a value of the query of a URL: no value, a string, a sequence of strings
Absent == [kind |-> "absent", s |-> "", items |-> <<>>]
Str(s) == [kind |-> "str", s |-> s, items |-> <<>>]
SeqVal(items) == [kind |-> "seq", s |-> "", items |-> items]

\* bool(value) of a query value (None when the key is absent)
Truthy(value) ==
  \/ value.kind = "str" /\ value.s # ""
  \/ value.kind = "seq" /\ value.items # <<>>

\* the keys of a query besides jdbc_dsn; the reserved ones among them
QueryKeys == {"jdbc_driver", "jdbc_modules", "user", "encrypt"}
NoQuery == [k \in QueryKeys |-> Absent]

\* the jdbc_dsn key of a query: whether it is there, the address of the DSN, the
\* query the DSN carries itself
Override(present, dsn, query) == [present |-> present, dsn |-> dsn, query |-> query]
NoOverride == Override(FALSE, "", NoQuery)

\* a dict of connect arguments: driver_args keeps jdbc_dsn when it was not popped
ConnectArgs(dsn, driver, is_async, driver_args, jdbc_dsn, hasModules, modules) ==
  [dsn |-> dsn, driver |-> driver, is_async |-> is_async, driver_args |-> driver_args,
   jdbc_dsn |-> jdbc_dsn, hasModules |-> hasModules, modules |-> modules]
NoConnectArgs == ConnectArgs("", "", FALSE, NoQuery, FALSE, FALSE, <<>>)

Built(args) == [status |-> "ok", exc |-> NoExc, args |-> args]
NotBuilt(exc) == [status |-> "raised", exc |-> exc, args |-> NoConnectArgs]

\* if isinstance(modules, str): modules = (modules,)
ModulesArgument(modules) ==
  IF modules.kind = "str" THEN <<modules.s>> ELSE modules.items

\* mutant: jdbc_modules stays among the driver arguments
FromQuery_keep_modules(dsn, query, jdbc_dsn, is_async) ==
  IF query["jdbc_driver"].kind = "absent"
  THEN NotBuilt(TaxonomyExc("OperationalError",
                            "The jdbc_driver key is required in the query string"))
  ELSE LET modules == query["jdbc_modules"]
       IN  Built(ConnectArgs(dsn, query["jdbc_driver"].s, is_async,
                             [query EXCEPT !["jdbc_driver"] = Absent],
                             jdbc_dsn, Truthy(modules),
                             IF Truthy(modules) THEN ModulesArgument(modules) ELSE <<>>))

\* _create_connect_args from driver_args.pop("jdbc_driver") on
FromQuery(dsn, query, jdbc_dsn, is_async) ==
  IF query["jdbc_driver"].kind = "absent"
  THEN NotBuilt(TaxonomyExc("OperationalError",
                            "The jdbc_driver key is required in the query string"))
  ELSE LET modules == query["jdbc_modules"]
       IN  Built(ConnectArgs(dsn, query["jdbc_driver"].s, is_async,
                             [query EXCEPT !["jdbc_driver"] = Absent,
                                           !["jdbc_modules"] = Absent],
                             jdbc_dsn, Truthy(modules),
                             IF Truthy(modules) THEN ModulesArgument(modules) ELSE <<>>))

\* mutant: a query without jdbc_driver yields arguments with an empty driver
JDBCDialectBase_create_connect_args_lenient(dsn, query, override, is_async) ==
  FromQuery(dsn, [query EXCEPT !["jdbc_driver"] =
                    IF @.kind = "absent" THEN Str("") ELSE @],
            override.present, is_async)

\* JDBCDialectBase._create_connect_args: jdbc_dsn is a key like any other
JDBCDialectBase_create_connect_args(dsn, query, override, is_async) ==
  FromQuery(dsn, query, override.present, is_async)

\* dict | dict: the right operand wins
Merge(left, right) ==
  [k \in QueryKeys |-> IF right[k].kind # "absent" THEN right[k] ELSE left[k]]

\* MSJDBCDialect.create_connect_args(url)[1] for a URL without user and password:
\* encrypt goes into the DSN; the other dialects hand url.query on as it is
Dialect_create_connect_args(family, dsn, query, is_async) ==
  IF family = "mssql"
  THEN FromQuery(IF Truthy(query["encrypt"])
                 THEN dsn \o ";encrypt=" \o query["encrypt"].s ELSE dsn,
                 [query EXCEPT !["encrypt"] = Absent], FALSE, is_async)
  ELSE FromQuery(dsn, query, FALSE, is_async)

\* JDBCConnector._create_connect_args
JDBCConnector_create_connect_args(family, dsn, query, override, is_async) ==
  IF override.present
  THEN Dialect_create_connect_args(family, override.dsn, Merge(query, override.query),
                                   is_async)
  ELSE FromQuery(dsn, query, FALSE, is_async)

\* the queries of the URLs given; the query a DSN given as jdbc_dsn carries
QueryInputs ==
  {[k \in QueryKeys |->
      CASE k = "jdbc_driver" -> d [] k = "jdbc_modules" -> m [] k = "user" -> u
        [] OTHER -> c] :
     d \in {Absent, Str("D")},
     m \in {Absent, Str(""), Str("a.jar"), Str("a.jar,b.jar"), SeqVal(<<>>),
             SeqVal(<<"a.jar", "b.jar">>)},
     u \in {Absent, Str("u1")},
     c \in {Absent, Str("true")}}
OverrideInputs ==
  {NoOverride} \cup
  {Override(TRUE, "dsn1", [NoQuery EXCEPT !["jdbc_driver"] = d, !["user"] = u]) :
     d \in {Absent, Str("E")}, u \in {Absent, Str("u2")}}

\* a dialect is about to build the connect arguments of a URL
InitConnectArgs ==
  /\ InitIdle
  /\ queue = {}
  /\ java = NoJava
  /\ \E family \in {"mssql", "postgresql"}, query \in QueryInputs,
        override \in OverrideInputs, is_async \in BOOLEAN :
       fn = [name |-> "_create_connect_args", by |-> "none", family |-> family,
             dsn |-> "dsn0", query |-> query, override |-> override,
             is_async |-> is_async, out |-> NotBuilt(NoExc)]

\* self._create_connect_args(dsn, query) of a dialect built on JDBCConnector
AConnector ==
  /\ fn.name = "_create_connect_args"
  /\ fn.by = "none"
  /\ fn' = [fn EXCEPT !.by = "JDBCConnector",
                      !.out = JDBCConnector_create_connect_args(
                                fn.family, fn.dsn, fn.query, fn.override, fn.is_async)]
  /\ UNCHANGED <<jcxClosed, connClosed, cur, bound, closeCalled, last, task, xlate,
                 jAutoCommit, db, obs, hist, registry, queue, java>>

\* self._create_connect_args(dsn, query) of a dialect built on JDBCDialectBase
ADialectBase ==
  /\ fn.name = "_create_connect_args"
  /\ fn.by = "none"
  /\ fn' = [fn EXCEPT !.by = "JDBCDialectBase",
                      !.out = JDBCDialectBase_create_connect_args(
                                fn.dsn, fn.query, fn.override, fn.is_async)]
  /\ UNCHANGED <<jcxClosed, connClosed, cur, bound, closeCalled, last, task, xlate,
                 jAutoCommit, db, obs, hist, registry, queue, java>>

NextConnectArgs ==
  \/ AConnector
  \/ ADialectBase

SpecConnectArgs == InitConnectArgs /\ [][NextConnectArgs]_vars

\* ------------------------------------------------------- the native runtime
\* Java.attached
Java_attached(j, t) == j.started /\ t \in j.attached

\* Java.attach_thread
Java_attach_thread(j, t) ==
  IF t \in j.attached THEN j
  ELSE [j EXCEPT !.attached = @ \cup {t},
                 !.attachCalls[t] = IF @ < 2 THEN @ + 1 ELSE @]

\* mutant: the thread is attached whether it is attached or not
Java_attach_always(j, t) ==
  [j EXCEPT !.attached = @ \cup {t}, !.attachCalls[t] = IF @ < 2 THEN @ + 1 ELSE @]

\* Java.attach on a started runtime
Java_attach(j, t) == IF Java_attached(j, t) THEN j ELSE Java_attach_thread(j, t)

\* Java.add_modules
Java_add_modules(j, modules) == [j EXCEPT !.classpath = @ \cup modules]

\* jpype.startJVM by thread t on a runtime that is not started: the thread that
\* starts the runtime is attached to it; then self.attach()
Java_startJVM(j, t) ==
  Java_attach([j EXCEPT !.started = TRUE, !.starts = IF @ < 2 THEN @ + 1 ELSE @,
                        !.attached = @ \cup {t}], t)

\* the first driver of DriverManager.getDrivers() whose class has the name
Scan(drivers, driver) ==
  LET found == {i \in 1..Len(drivers) : drivers[i].cls = driver}
  IN  IF found = {} THEN NoDriver
      ELSE drivers[CHOOSE i \in found : \A k \in found : i <= k].id

\* the outcome of get_connection's choice of the driver: how it was found
Resolved(j, how, instance) == [j |-> j, status |-> "ok", how |-> how, instance |-> instance]
NotResolved(j, how) == [j |-> j, status |-> "raised", how |-> how, instance |-> NoDriver]

\* mutant: the cache is not looked at
Java_get_connection_no_cache(j, driver, modules) ==
  IF ~j.started THEN NotResolved(j, "assert_started")
  ELSE IF Scan(j.drivers, driver) # NoDriver
  THEN Resolved([j EXCEPT !.cache[driver] = IF @ = NoDriver THEN Scan(j.drivers, driver) ELSE @],
                "scan", Scan(j.drivers, driver))
  ELSE IF Requires(driver) \notin j.classpath \cup modules THEN NotResolved(j, "load")
  ELSE LET new == Len(j.drivers) + 1
       IN  Resolved([j EXCEPT !.drivers = Append(@, [id |-> new, cls |-> driver]),
                              !.cache[driver] = IF @ = NoDriver THEN new ELSE @],
                    "load", new)

\* Java.get_connection up to the choice of the driver.  load_driver_instance
\* finds the class when its module is on the classpath or among modules.
Java_get_connection(j, driver, modules) ==
  IF ~j.started THEN NotResolved(j, "assert_started")
  ELSE IF j.cache[driver] # NoDriver THEN Resolved(j, "cache", j.cache[driver])
  ELSE IF Scan(j.drivers, driver) # NoDriver
  THEN Resolved([j EXCEPT !.cache[driver] = Scan(j.drivers, driver)],
                "scan", Scan(j.drivers, driver))
  ELSE IF Requires(driver) \notin j.classpath \cup modules THEN NotResolved(j, "load")
  ELSE LET new == Len(j.drivers) + 1
       IN  Resolved([j EXCEPT !.drivers = Append(@, [id |-> new, cls |-> driver]),
                              !.cache[driver] = new],
                    "load", new)

\* what the call changed besides the position of its thread
SameRuntime(j1, j2) == [j1 EXCEPT !.pc = j2.pc] = j2

\* the record of a completed start() or attach()
Lifecycle(name, t, j) ==
  [name |-> name, t |-> t, wasStarted |-> java.started, wasAttached |-> t \in java.attached,
   same |-> SameRuntime(java, j), status |-> "ok"]

\* the rest of the state
JavaOnly ==
  UNCHANGED <<jcxClosed, connClosed, cur, bound, closeCalled, last, task, xlate,
              jAutoCommit, db, obs, hist, registry, queue>>

\* start(*modules), attach() or connect(dsn, driver, modules) is called by an
\* idle thread.  On a started runtime start() only attaches; otherwise the
\* modules are added and the thread goes on to start the runtime.
JBegin(t, call, driver, modules) ==
  /\ java.pc[t].at = "idle"
  /\ IF java.started
     THEN LET j == Java_attach(java, t)
          IN  IF call = "connect"
              THEN /\ java' = [j EXCEPT !.pc[t] = [at |-> "get_connection", call |-> call,
                                                   driver |-> driver, modules |-> modules]]
                   /\ UNCHANGED fn
              ELSE /\ java' = j
                   /\ fn' = Lifecycle(call, t, j)
     ELSE /\ java' = [Java_add_modules(java, modules) EXCEPT
                        !.pc[t] = [at |-> "startJVM", call |-> call, driver |-> driver,
                                   modules |-> modules]]
          /\ UNCHANGED fn
  /\ JavaOnly

\* Java().start(*modules)
JStart == \E t \in Threads, modules \in ModulesInputs : JBegin(t, "start", "", modules)

\* Java().attach(): start() without modules when the runtime is not started
JAttach == \E t \in Threads : JBegin(t, "attach", "", {})

\* connect(dsn, driver, modules): jvm.start(*modules), then get_connection
JConnect ==
  \E driver \in DriverNames, modules \in ModulesInputs :
    JBegin(Owner, "connect", driver, modules)

\* jpype.startJVM: raises OSError when another thread has started the runtime
\* in between
JStartJVM ==
  \E t \in Threads :
    /\ java.pc[t].at = "startJVM"
    /\ IF java.started
       THEN /\ java' = [java EXCEPT !.pc[t] = IdleJ]
            /\ fn' = [Lifecycle(java.pc[t].call, t, java) EXCEPT !.status = "raised"]
       ELSE LET j == Java_startJVM(java, t)
            IN  IF java.pc[t].call = "connect"
                THEN /\ java' = [j EXCEPT !.pc[t].at = "get_connection"]
                     /\ UNCHANGED fn
                ELSE /\ java' = [j EXCEPT !.pc[t] = IdleJ]
                     /\ fn' = Lifecycle(java.pc[t].call, t, j)
    /\ JavaOnly

\* jvm.get_connection(dsn, driver, **driver_args): no modules are handed on.
\* Kept beside the outcome: the modules of the connect call, whether each was
\* on the classpath when the driver was chosen, the cache entry and the
\* registered driver of that name before the call, and the drivers after it.
JGetConnection ==
  \E t \in Threads :
    /\ java.pc[t].at = "get_connection"
    /\ LET o == Java_get_connection(java, java.pc[t].driver, {})
       IN  /\ java' = [o.j EXCEPT !.pc[t] = IdleJ]
           /\ fn' = [name |-> "get_connection", t |-> t, driver |-> java.pc[t].driver,
                     modules |-> java.pc[t].modules,
                     available |-> java.pc[t].modules \subseteq java.classpath,
                     cached |-> java.cache[java.pc[t].driver],
                     registered |-> Scan(java.drivers, java.pc[t].driver),
                     before |-> Len(java.drivers), after |-> Len(o.j.drivers),
                     status |-> o.status, how |-> o.how, instance |-> o.instance]
    /\ JavaOnly

\* a driver on the classpath registers itself with DriverManager (its static
\* initialiser, the service loader)
JRegisterDriver ==
  \E driver \in DriverNames :
    /\ java.started
    /\ Requires(driver) \in java.classpath
    /\ Scan(java.drivers, driver) = NoDriver
    /\ java' = [java EXCEPT !.drivers = Append(@, [id |-> Len(@) + 1, cls |-> driver])]
    /\ UNCHANGED fn
    /\ JavaOnly

InitJava ==
  /\ InitIdle
  /\ queue = {}
  /\ fn = NoFn
  /\ java = NoJava

NextJava ==
  \/ JStart
  \/ JAttach
  \/ JStartJVM

\* start() and attach() called by any threads at any time
SpecJava == InitJava /\ [][NextJava]_vars

NextConnect ==
  \/ JConnect
  \/ JStartJVM
  \/ JGetConnection
  \/ JRegisterDriver

\* one thread connects again and again
SpecConnect == InitJava /\ [][NextConnect]_vars

\* ----------------------------------------------------------- is_disconnect
\* mutant: the cursor is looked at first
is_disconnect_cursor_first(n, e, connection, cursor) ==
  IF cursor THEN Cursor_is_closed(n, Owner)
  ELSE IF connection THEN Connection_is_closed(n)
  ELSE FALSE

\* JDBCConnector.is_disconnect(e, connection, cursor); connection and cursor
\* tell whether the argument is an object (TRUE) or None (FALSE)
is_disconnect(n, e, connection, cursor) ==
  IF connection THEN Connection_is_closed(n)
  ELSE IF cursor THEN Cursor_is_closed(n, Owner)
  ELSE FALSE

\* the exceptions SQLAlchemy asks about
DisconnectErrors ==
  {TaxonomyExc("OperationalError", "m1"), TaxonomyExc("ProgrammingError", "m2"),
   PythonExc("AttributeError", "m1")}

\* dialect.is_disconnect(e, connection, cursor); the properties as they are at
\* the call are kept beside the result
QIsDisconnect ==
  \E e \in DisconnectErrors, connection \in BOOLEAN, cursor \in BOOLEAN :
    /\ fn' = [name |-> "is_disconnect", e |-> e, connection |-> connection,
              cursor |-> cursor,
              connection_is_closed |-> Connection_is_closed(Native),
              cursor_is_closed |-> Cursor_is_closed(Native, Owner),
              out |-> is_disconnect(Native, e, connection, cursor)]
    /\ UNCHANGED <<jcxClosed, connClosed, cur, bound, closeCalled, last, task, xlate,
                   jAutoCommit, db, obs, hist, registry, queue, java>>

\* connection.close()
QConnectionClose ==
  SessionStep("Connection.close", Connection_close(Native), NoEvent)

\* cursor.close()
QCursorClose ==
  SessionStep("Cursor.close", Cursor_close(Native, Owner, Owner), NoEvent)

NextDisconnect ==
  \/ QIsDisconnect
  \/ QConnectionClose
  \/ QCursorClose

SpecDisconnect == InitCursor /\ [][NextDisconnect]_vars

\* --------------------------------------- the parameters of execute(many)
\* a new cursor and a caller about to pass a parameter object to execute, or a
\* sequence of parameter sets to executemany
InitParams ==
  /\ jcxClosed = FALSE
  /\ connClosed = FALSE
  /\ cur = [c \in Cursors |->
              IF c = Owner THEN [NoCursor EXCEPT !.exists = TRUE, !.thread = Owner]
              ELSE NoCursor]
  /\ jAutoCommit = FALSE
  /\ db = NoDb
  /\ InitCallers
  /\ xlate = NoXlate
  /\ \/ \E parameters \in ParamInputs :
          obs = [NoObs EXCEPT !.api = "execute", !.args = parameters]
     \/ \E seq \in SeqOfSetInputs :
          obs = [NoObs EXCEPT !.api = "executemany", !.args = seq]
  /\ hist = <<>>
  /\ registry = NoRegistry
  /\ queue = {}
  /\ fn = NoFn
  /\ java = NoJava

\* cursor.execute(operation, parameters): positional, named or no parameters
PExecute ==
  /\ obs.api = "execute"
  /\ \E operation \in AllStatements : ExecuteCall(operation, obs.args)

\* cursor.executemany(operation, seq_of_parameters): positional and named sets
PExecutemany ==
  /\ obs.api = "executemany"
  /\ \E operation \in DmlStatements : ExecutemanyCall(operation, obs.args)

\* cursor.fetchone() on the result of the execute
PFetchone ==
  /\ obs.api \in {"Cursor.execute", "Cursor.executemany"}
  /\ CFetchone

NextParams ==
  \/ PExecute
  \/ PExecutemany
  \/ PFetchone

SpecParams == InitParams /\ [][NextParams]_vars

\* ------------------------------------------------- catch_errors on its own
\* what the wrapped func may do: return a value, raise a jpype.dbapi2 error of
\* any class with any args, or raise something that is no jpype.dbapi2 error
ArgTuples == UNION {[1..k -> Messages] : k \in 0..MaxArgs}

FuncOutcomes ==
  {Ok("None", <<>>)}
  \cup {Ok("row", <<(<<v>>)>>) : v \in Values}
  \cup {Raise(NativeExcArgs(k, args)) : k \in Kinds \cup {"RuntimeError"}, args \in ArgTuples}

InitTranslate ==
  /\ InitNative
  /\ InitCallers
  /\ obs = NoObs
  /\ hist = <<>>
  /\ registry = NoRegistry
  /\ queue = {}
  /\ fn = NoFn
  /\ java = NoJava
  /\ xlate \in {[phase |-> "called", in |-> r, out |-> Ok("none", <<>>)] : r \in FuncOutcomes}

\* catch_errors(func) runs func and returns or raises
Translate ==
  /\ xlate.phase = "called"
  /\ xlate' = [xlate EXCEPT !.phase = "returned", !.out = catch_errors(xlate.in)]
  /\ UNCHANGED <<jcxClosed, connClosed, cur, bound, closeCalled, last, task,
               jAutoCommit, db, obs, hist, registry, queue, fn, java>>

NextTranslate == Translate

SpecTranslate == InitTranslate /\ [][NextTranslate]_vars

\* ---------------------------------------------------------- AsyncConnection
\* the bound method of the synchronous connection that an api dispatches
SyncOp(api, n, fail) ==
  IF api \in {"AsyncConnection.close", "AsyncConnection.__aexit__"} THEN Connection_close(n)
  ELSE IF api = "AsyncConnection.commit" THEN Connection_commit(n, fail)
  ELSE Connection_rollback(n, fail)

\* _safe_run_in_thread up to its first await: the is_closed guard, then the
\* operation is handed to run_in_thread
AsyncBegin(a, api) ==
  /\ task[a].pc = "idle"
  /\ IF Connection_is_closed(Native)
     THEN /\ last' = Call(a, api,
                          Raise(TaxonomyExc("OperationalError", "Connection is closed")),
                          LoopThread)
          /\ UNCHANGED task
     ELSE /\ task' = [task EXCEPT ![a] = [NoTask EXCEPT !.pc = "thread", !.api = api]]
          /\ UNCHANGED last
  /\ closeCalled' = (closeCalled \/ api \in CloseApis)
  /\ UNCHANGED <<jcxClosed, connClosed, cur, jAutoCommit, db, bound, xlate, obs, hist, registry, queue, fn, java>>

\* await conn.close()
AsyncClose(a) == AsyncBegin(a, "AsyncConnection.close")

\* leaving "async with conn:": __aexit__ awaits self.close()
AsyncAexit(a) == AsyncBegin(a, "AsyncConnection.__aexit__")

\* await conn.commit()
AsyncCommit(a) == AsyncBegin(a, "AsyncConnection.commit")

\* await conn.rollback()
AsyncRollback(a) == AsyncBegin(a, "AsyncConnection.rollback")

\* what the awaiting caller sees when _safe_run_in_thread ends
AsyncReturn(a, r, orig, shield) ==
  [Call(a, task[a].api, r, WorkerThread) EXCEPT
     !.wasClosed = FALSE, !.orig = orig, !.shield = shield]

\* the worker thread runs the dispatched operation and the coroutine resumes:
\* with the result, or in the except block, which under CancelScope(shield=True)
\* awaits self.close() if the connection is not closed and then re-raises
AsyncThreadRun(a) ==
  /\ task[a].pc = "thread"
  /\ \E fail \in BOOLEAN :
       LET o == SyncOp(task[a].api, Native, fail)
       IN  /\ Store(o)
           /\ IF o.r.status = "ok"
              THEN /\ last' = AsyncReturn(a, o.r, NoExc, FALSE)
                   /\ task' = [task EXCEPT ![a] = NoTask]
              ELSE IF ~Connection_is_closed(o.n)
              THEN /\ task' = [task EXCEPT ![a] =
                                 [@ EXCEPT !.pc = "cleanup", !.err = o.r.exc,
                                           !.orig = o.r.exc, !.depth = 1]]
                   /\ UNCHANGED last
              ELSE /\ last' = AsyncReturn(a, o.r, o.r.exc, TRUE)
                   /\ task' = [task EXCEPT ![a] = NoTask]
  /\ UNCHANGED <<bound, closeCalled, xlate, obs, hist, registry, queue, fn, java>>

\* the worker thread runs the close() awaited by the except block.  When it
\* returns, the block re-raises the error it caught; when it raises, the nested
\* _safe_run_in_thread handles that error the same way and it is the nested
\* error that leaves the outer except block
AsyncCleanupRun(a) ==
  /\ task[a].pc = "cleanup"
  /\ LET o == Connection_close(Native)
     IN  /\ Store(o)
         /\ IF o.r.status = "ok"
            THEN /\ last' = AsyncReturn(a, Raise(task[a].err), task[a].orig, TRUE)
                 /\ task' = [task EXCEPT ![a] = NoTask]
            ELSE IF ~Connection_is_closed(o.n)
            THEN /\ task' = [task EXCEPT ![a] =
                               [@ EXCEPT !.err = o.r.exc, !.depth = @ + 1]]
                 /\ UNCHANGED last
            ELSE /\ last' = AsyncReturn(a, o.r, task[a].orig, TRUE)
                 /\ task' = [task EXCEPT ![a] = NoTask]
  /\ UNCHANGED <<bound, closeCalled, xlate, obs, hist, registry, queue, fn, java>>

\* conn.cursor(): AsyncConnection.cursor calls the synchronous cursor() itself
AsyncCursor(a) ==
  /\ task[a].pc = "idle"
  /\ LET o == Connection_cursor(Native, a, LoopThread)
     IN  /\ Store(o)
         /\ last' = Call(a, "AsyncConnection.cursor", o.r, LoopThread)
  /\ UNCHANGED <<bound, closeCalled, task, xlate, obs, hist, registry, queue, fn, java>>

\* conn.is_closed: AsyncConnection.is_closed reads the synchronous property itself
AsyncIsClosed(a) ==
  /\ task[a].pc = "idle"
  /\ last' = Call(a, "AsyncConnection.is_closed",
                  Ok(IF Connection_is_closed(Native) THEN "True" ELSE "False", <<>>),
                  LoopThread)
  /\ UNCHANGED <<jcxClosed, connClosed, cur, jAutoCommit, db, bound, closeCalled, task,
               xlate, obs, hist, registry, queue, fn, java>>

NextAsync ==
  \/ \E a \in Tasks : AsyncClose(a)
  \/ \E a \in Tasks : AsyncAexit(a)
  \/ \E a \in Tasks : AsyncCommit(a)
  \/ \E a \in Tasks : AsyncRollback(a)
  \/ \E a \in Tasks : AsyncThreadRun(a)
  \/ \E a \in Tasks : AsyncCleanupRun(a)
  \/ \E a \in Tasks : AsyncCursor(a)
  \/ \E a \in Tasks : AsyncIsClosed(a)

\* coroutines of one event loop sharing one AsyncConnection
SpecAsync == Init /\ [][NextAsync]_vars

\* --------------------------------------------------- thread_id of a cursor
\* Cursor.thread_id: the _thread attribute of the native cursor
Cursor_get_thread_id(n, c) == wrap_errors([n |-> n, r |-> Ok("thread", <<n.cur[c].thread>>)])

\* Cursor.thread_id = value
Cursor_set_thread_id(n, c, value) ==
  wrap_errors([n |-> [n EXCEPT !.cur[c].thread = value], r |-> Ok("unit", <<>>)])

\* a call by thread t on the cursor of Owner; hist keeps the most recent of:
\* a native call that was executed, a write of thread_id
ThreadIdStep(t, api, o, ev) ==
  /\ Store(o)
  /\ last' = Call(t, api, o.r, t)
  /\ hist' = IF ev # NoEvent /\ o.r.status = "ok" THEN <<ev>> ELSE hist
  /\ UNCHANGED <<bound, closeCalled, task, xlate, obs, registry, queue, fn, java>>

HExecute ==
  \E t \in Threads, v \in Values :
    ThreadIdStep(t, "Cursor.execute",
                 Cursor_execute(Native, Owner, t, "SELECT ?", SeqParams(<<v>>)),
                 Event("native", t.i))

HFetchone ==
  \E t \in Threads :
    ThreadIdStep(t, "Cursor.fetchone", Cursor_fetchone(Native, Owner, t),
                 IF JCursor_check_executed(Native, Owner, t) = "ok"
                 THEN Event("native", t.i) ELSE NoEvent)

HGetThreadId ==
  \E t \in Threads :
    ThreadIdStep(t, "Cursor.thread_id", Cursor_get_thread_id(Native, Owner), NoEvent)

HSetThreadId ==
  \E t \in Threads, value \in Threads :
    ThreadIdStep(t, "Cursor.thread_id=", Cursor_set_thread_id(Native, Owner, value),
                 Event("write", value.i))

HClose ==
  \E t \in Threads :
    ThreadIdStep(t, "Cursor.close", Cursor_close(Native, Owner, t), NoEvent)

NextThreadId ==
  \/ HExecute
  \/ HFetchone
  \/ HGetThreadId
  \/ HSetThreadId
  \/ HClose

\* the threads of a process use the cursor one of them created
SpecThreadId == InitCursor /\ [][NextThreadId]_vars

\* ------------------------------------------ wrap_async: sync call of a coroutine
\* what the coroutine does when it is run to its end: a value or an exception
CoroOutcomes ==
  {Ok("int", <<v>>) : v \in Values}
    \cup {Raise(TaxonomyExc(k, m)) : k \in {"OperationalError", "ProgrammingError"},
                                     m \in Messages}

\* a concurrent.futures.Future: pending, or done with what its callable did
Pending == [done |-> FALSE, r |-> Ok("none", <<>>)]
Done(r) == [done |-> TRUE, r |-> r]

\* _run(func, *args) on the worker: asyncio.run(_await(func, *args)) returns
\* what the coroutine returns and raises what it raises
run(coro) == coro

\* await_(coro) of utils_async on the switched stack
await_(coro) == coro

\* mutant: wait returns at once
wait_none(future) == TRUE

\* wait([future], return_when="ALL_COMPLETED") has returned
wait(future) == future.done

\* future.result()
Future_result(future) == future.r

\* the call of inner(*args): greenlet: the caller is in a greenlet context;
\* workers: worker threads created so far, alive: worker threads of a pool that
\* is not shut down
NoWrap ==
  [name |-> "wrap_async", pc |-> "idle", greenlet |-> FALSE, coro |-> Ok("none", <<>>),
   future |-> Pending, workers |-> 0, before |-> 0, alive |-> 0, calls |-> 0,
   ran_on |-> "none", result |-> Ok("none", <<>>)]

WrapOnly ==
  UNCHANGED <<jcxClosed, connClosed, cur, bound, closeCalled, last, task, xlate,
              jAutoCommit, db, obs, hist, registry, queue, java>>

InitWrap ==
  /\ InitIdle
  /\ queue = {}
  /\ java = NoJava
  /\ fn = NoWrap

\* inner(*args) up to pool.submit (no greenlet context) or to func(*args)
WCall ==
  \E greenlet \in BOOLEAN, coro \in CoroOutcomes :
    /\ fn.pc \in {"idle", "returned"}
    /\ fn.calls < MaxOps
    /\ fn' = IF ~greenlet
             THEN [fn EXCEPT !.pc = "submitted", !.greenlet = greenlet, !.coro = coro,
                             !.future = Pending, !.before = fn.workers,
                             !.workers = @ + 1, !.alive = @ + 1, !.calls = @ + 1,
                             !.ran_on = "none", !.result = Ok("none", <<>>)]
             ELSE [fn EXCEPT !.pc = "awaiting", !.greenlet = greenlet, !.coro = coro,
                             !.future = Pending, !.before = fn.workers,
                             !.calls = @ + 1,
                             !.ran_on = "none", !.result = Ok("none", <<>>)]
    /\ WrapOnly

\* the worker thread of the pool runs _run(func, *args) and completes the future
WWorkerRun ==
  /\ fn.pc = "submitted"
  /\ ~fn.future.done
  /\ fn' = [fn EXCEPT !.future = Done(run(fn.coro)), !.ran_on = "worker"]
  /\ WrapOnly

\* wait(...) returns, the with block shuts the pool down, future.result()
WResult ==
  /\ fn.pc = "submitted"
  /\ wait(fn.future)
  /\ fn' = [fn EXCEPT !.pc = "returned", !.result = Future_result(fn.future),
                      !.alive = @ - 1]
  /\ WrapOnly

\* await_(coro) in a greenlet context
WAwait ==
  /\ fn.pc = "awaiting"
  /\ fn' = [fn EXCEPT !.pc = "returned", !.result = await_(fn.coro), !.ran_on = "caller"]
  /\ WrapOnly

NextWrap ==
  \/ WCall
  \/ WWorkerRun
  \/ WResult
  \/ WAwait

\* one caller makes calls through wrap_async, in and out of a greenlet context
SpecWrap == InitWrap /\ [][NextWrap]_vars

\* --------------------------------- the order of the native calls of a cursor
OrderedApis ==
  {"Cursor.execute", "Cursor.executemany", "Cursor.fetchone", "Cursor.fetchmany",
   "Cursor.fetchall"}

\* mutant: fetchall asks the native cursor row by row
NativeCallsOf_rowwise(api) ==
  CASE api = "Cursor.execute" -> <<"execute">>
    [] api = "Cursor.executemany" -> <<"executemany">>
    [] api = "Cursor.fetchone" -> <<"fetchone">>
    [] api = "Cursor.fetchmany" -> <<"fetchmany">>
    [] api = "Cursor.fetchall" -> <<"fetchone", "fetchone">>

\* the methods of the native cursor a method of Cursor calls, in order
NativeCallsOf(api) ==
  CASE api = "Cursor.execute" -> <<"execute">>
    [] api = "Cursor.executemany" -> <<"executemany">>
    [] api = "Cursor.fetchone" -> <<"fetchone">>
    [] api = "Cursor.fetchmany" -> <<"fetchmany">>
    [] api = "Cursor.fetchall" -> <<"fetchall">>

\* what the method of Cursor does to the native objects and returns
CursorCall(api, n) ==
  CASE api = "Cursor.execute" -> Cursor_execute(n, Owner, Owner, "SELECT *", NoParams)
    [] api = "Cursor.executemany" ->
         Cursor_executemany(n, Owner, Owner, "INSERT ?", SeqParams(<<SeqParams(<<1>>)>>))
    [] api = "Cursor.fetchone" -> Cursor_fetchone(n, Owner, Owner)
    [] api = "Cursor.fetchmany" -> Cursor_fetchmany(n, Owner, Owner, 1, "empty")
    [] api = "Cursor.fetchall" -> Cursor_fetchall(n, Owner, Owner)

\* the native calls of the k-th operation, as entries of the log
LogOf(api, k) == [i \in 1..Len(NativeCallsOf(api)) |-> Event(NativeCallsOf(api)[i], k)]

\* the operations issued so far, how each was issued, those whose native calls
\* have completed, and where the caller is
NoOrder ==
  [name |-> "order", issued |-> <<>>, via |-> <<>>, ended |-> {}, pc |-> "idle"]

InitOrder ==
  /\ jcxClosed = FALSE
  /\ connClosed = FALSE
  /\ cur = [c \in Cursors |->
              IF c = Owner THEN [NoCursor EXCEPT !.exists = TRUE, !.thread = Owner]
              ELSE NoCursor]
  /\ jAutoCommit = FALSE
  /\ db = NoDb
  /\ InitCallers
  /\ xlate = NoXlate
  /\ obs = NoObs
  /\ hist = <<>>
  /\ registry = NoRegistry
  /\ queue = {}
  /\ fn = NoOrder
  /\ java = NoJava

OrderOnly == UNCHANGED <<bound, closeCalled, task, xlate, obs, registry, queue, java>>

\* cursor.execute(...), fetchone(), ... called on the Cursor itself: the native
\* call is made and completed inside the call
ODirect ==
  \E api \in OrderedApis :
    /\ fn.pc = "idle"
    /\ Len(fn.issued) < MaxOps
    /\ LET k == Len(fn.issued) + 1
           o == CursorCall(api, Native)
       IN  /\ Store(o)
           /\ last' = Call(Owner, api, o.r, Owner)
           /\ hist' = hist \o LogOf(api, k)
           /\ fn' = [fn EXCEPT !.issued = Append(@, api), !.via = Append(@, "direct"),
                               !.ended = @ \cup {k}]
    /\ OrderOnly

\* the same call on the adapter's AsyncCursor outside a greenlet context: inner
\* submits the coroutine to the worker of a new pool
OSubmit ==
  \E api \in OrderedApis :
    /\ fn.pc = "idle"
    /\ Len(fn.issued) < MaxOps
    /\ fn' = [fn EXCEPT !.issued = Append(@, api), !.via = Append(@, "adapter"),
                        !.pc = "submitted"]
    /\ UNCHANGED <<jcxClosed, connClosed, cur, jAutoCommit, db, last, hist>>
    /\ OrderOnly

\* a worker begins the native calls of the operation it was given
OWorkerBegin ==
  \E k \in 1..Len(fn.issued) :
    /\ fn.via[k] = "adapter"
    /\ k \notin fn.ended
    /\ \A i \in 1..Len(hist) : hist[i].v # k
    /\ hist' = hist \o LogOf(fn.issued[k], k)
    /\ UNCHANGED <<jcxClosed, connClosed, cur, jAutoCommit, db, last, fn>>
    /\ OrderOnly

\* the native calls of the worker complete
OWorkerEnd ==
  \E k \in 1..Len(fn.issued) :
    /\ fn.via[k] = "adapter"
    /\ k \notin fn.ended
    /\ \E i \in 1..Len(hist) : hist[i].v = k
    /\ LET o == CursorCall(fn.issued[k], Native)
       IN  /\ Store(o)
           /\ last' = Call(Owner, fn.issued[k], o.r, WorkerThread)
    /\ fn' = [fn EXCEPT !.ended = @ \cup {k}]
    /\ UNCHANGED hist
    /\ OrderOnly

\* wait(...) returns to the caller of the adapter
OReturn ==
  /\ fn.pc = "submitted"
  /\ wait(IF Len(fn.issued) \in fn.ended THEN Done(Ok("none", <<>>)) ELSE Pending)
  /\ fn' = [fn EXCEPT !.pc = "idle"]
  /\ UNCHANGED <<jcxClosed, connClosed, cur, jAutoCommit, db, last, hist>>
  /\ OrderOnly

NextOrder ==
  \/ ODirect
  \/ OSubmit
  \/ OWorkerBegin
  \/ OWorkerEnd
  \/ OReturn

\* one caller issues operations on one cursor, one after another
SpecOrder == InitOrder /\ [][NextOrder]_vars

\* ------------------------------------ definition and initialisation hook
\* the pipeline classes of a process: the built-in ones, in the order of the
\* module, and one class an application defines with dtype = "int"
PipelineClasses ==
  [cls \in 1..(Len(BuiltinPipelines) + 1) |->
     IF cls <= Len(BuiltinPipelines)
     THEN [dtype |-> Dtype(FALSE, BuiltinPipelines[cls].dtype),
           jtypes |-> BuiltinPipelines[cls].jtypes]
     ELSE [dtype |-> Dtype(TRUE, "int"), jtypes |-> <<"JInt">>]]
Builtins == 1..Len(BuiltinPipelines)
UserClass == Len(BuiltinPipelines) + 1

\* mutant: the hook instantiates the built-in classes only
init_pipeline_builtins(registry_queue) == registry_queue \cap Builtins

\* _init_pipeline: the classes it instantiates, for cls in _registry_queue
init_pipeline(registry_queue) == registry_queue

\* hooked: registerJVMInitializer was called; fired: how often the hook ran;
\* atFire: the queue when it ran; todo: what its loop has still to instantiate;
\* count: how often each class was instantiated
NoHook ==
  [name |-> "init_pipeline", hooked |-> FALSE, fired |-> 0, atFire |-> {}, todo |-> {},
   count |-> [cls \in DOMAIN PipelineClasses |-> 0]]

HookOnly ==
  UNCHANGED <<jcxClosed, connClosed, cur, bound, closeCalled, last, task, xlate,
              jAutoCommit, db, obs, hist, java>>

InitHook ==
  /\ InitIdle
  /\ queue = {}
  /\ fn = NoHook
  /\ java = NoJava

\* the import of jdbc_wrapper.pipeline reaches the next built-in class
\* statement: BasePipeline.__init_subclass__
KDefineBuiltin ==
  /\ ~fn.hooked
  /\ Cardinality(queue) < Len(BuiltinPipelines)
  /\ queue' = queue \cup {Cardinality(queue) + 1}
  /\ UNCHANGED <<registry, fn>>
  /\ HookOnly

\* the last statement of the module: jpype._jinit.registerJVMInitializer
KRegisterHook ==
  /\ ~fn.hooked
  /\ queue = Builtins
  /\ fn' = [fn EXCEPT !.hooked = TRUE]
  /\ UNCHANGED <<registry, queue>>
  /\ HookOnly

\* an application defines its own pipeline class, before or after the runtime
\* is started
KDefineUser ==
  /\ fn.hooked
  /\ fn.todo = {}
  /\ UserClass \notin queue
  /\ queue' = queue \cup {UserClass}
  /\ UNCHANGED <<registry, fn>>
  /\ HookOnly

\* the runtime is started (once): jpype runs the registered initialisers
KFire ==
  /\ fn.hooked
  /\ fn.fired = 0
  /\ fn' = [fn EXCEPT !.fired = 1, !.atFire = queue, !.todo = init_pipeline(queue)]
  /\ UNCHANGED <<registry, queue>>
  /\ HookOnly

\* one turn of the loop of _init_pipeline: cls()
KInstantiate ==
  \E cls \in fn.todo :
    /\ registry' = BasePipeline_init(registry, cls, PipelineClasses[cls].dtype,
                                     PipelineClasses[cls].jtypes)
    /\ fn' = [fn EXCEPT !.todo = @ \ {cls},
                        !.count[cls] = IF @ < 2 THEN @ + 1 ELSE @]
    /\ UNCHANGED queue
    /\ HookOnly

NextHook ==
  \/ KDefineBuiltin
  \/ KRegisterHook
  \/ KDefineUser
  \/ KFire
  \/ KInstantiate

\* the module is imported, the runtime is started, an application class is
\* defined before or after that
SpecHook == InitHook /\ [][NextHook]_vars

\* ------------------------------- _safe_run_in_thread when close() itself fails
\* an exception of the runtime that is no member of jpype.dbapi2
JavaExc(kind, msg) ==
  [layer |-> "java", kind |-> kind, args |-> <<msg>>, cause |-> NoCause]

\* Connection.close when the close of the handle may fail: jpype's _close calls
\* _jcx.close() outside any except clause, so the java.sql.SQLException leaves
\* it as it is, with _closed still false; catch_errors has no clause for it
Connection_close_raising(n, fail) ==
  IF fail /\ ~JConnection_validate(n)
  THEN wrap_errors([n |-> n, r |-> Raise(JavaExc("SQLException", "close failed"))])
  ELSE Connection_close(n)

\* mutant: the except clause takes every exception
Caught_all(exc) == TRUE

\* except (jpype_dbapi2.Error, exceptions.Error)
Caught(exc) == exc.layer \in {"native", "taxonomy"}

\* how deep the except blocks of a task may nest before the count stops
MaxDepth == 3

\* the worker thread runs the dispatched operation; the coroutine resumes with
\* the result, with an error its except clause does not take, or in the except
\* block
UThreadRun(a) ==
  /\ task[a].pc = "thread"
  /\ \E fail \in BOOLEAN :
       LET o == IF task[a].api \in CloseApis
                THEN Connection_close_raising(Native, fail)
                ELSE SyncOp(task[a].api, Native, fail)
       IN  /\ Store(o)
           /\ IF o.r.status = "ok"
              THEN /\ last' = AsyncReturn(a, o.r, NoExc, FALSE)
                   /\ task' = [task EXCEPT ![a] = NoTask]
              ELSE IF ~Caught(o.r.exc)
              THEN /\ last' = AsyncReturn(a, o.r, o.r.exc, FALSE)
                   /\ task' = [task EXCEPT ![a] = NoTask]
              ELSE IF ~Connection_is_closed(o.n)
              THEN /\ task' = [task EXCEPT ![a] =
                                 [@ EXCEPT !.pc = "cleanup", !.err = o.r.exc,
                                           !.orig = o.r.exc, !.depth = 1]]
                   /\ UNCHANGED last
              ELSE /\ last' = AsyncReturn(a, o.r, o.r.exc, TRUE)
                   /\ task' = [task EXCEPT ![a] = NoTask]
  /\ UNCHANGED <<bound, closeCalled, xlate, obs, hist, registry, queue, fn, java>>

\* the worker thread runs the close() the except block awaits, through a nested
\* _safe_run_in_thread: an error its except clause takes while the connection
\* is open makes it await close() once more
UCleanupRun(a) ==
  /\ task[a].pc = "cleanup"
  /\ \E fail \in BOOLEAN :
       LET o == Connection_close_raising(Native, fail)
       IN  /\ Store(o)
           /\ IF o.r.status = "ok"
              THEN /\ last' = AsyncReturn(a, Raise(task[a].err), task[a].orig, TRUE)
                   /\ task' = [task EXCEPT ![a] = NoTask]
              ELSE IF Caught(o.r.exc) /\ ~Connection_is_closed(o.n)
              THEN /\ task' = [task EXCEPT ![a] =
                                 [@ EXCEPT !.err = o.r.exc,
                                           !.depth = IF @ < MaxDepth THEN @ + 1 ELSE @]]
                   /\ UNCHANGED last
              ELSE /\ last' = AsyncReturn(a, o.r, task[a].orig, TRUE)
                   /\ task' = [task EXCEPT ![a] = NoTask]
  /\ UNCHANGED <<bound, closeCalled, xlate, obs, hist, registry, queue, fn, java>>

NextCleanup ==
  \/ \E a \in Tasks : AsyncClose(a)
  \/ \E a \in Tasks : AsyncCommit(a)
  \/ \E a \in Tasks : AsyncRollback(a)
  \/ \E a \in Tasks : UThreadRun(a)
  \/ \E a \in Tasks : UCleanupRun(a)

\* the worker thread runs what it was given and the event loop resumes the
\* coroutine that awaits it
SpecCleanup ==
  /\ Init
  /\ [][NextCleanup]_vars
  /\ \A a \in Tasks : WF_vars(UThreadRun(a)) /\ WF_vars(UCleanupRun(a))

\* ------------------------------------- wrappers over one native cursor
\* Cursor.__del__: close() with every Exception suppressed
Cursor_del(n, c, t) == [n |-> Cursor_close(n, c, t).n, r |-> Ok("unit", <<>>)]

\* the Cursor objects over the native cursor of Owner: wrapper 1 is the one
\* Connection.cursor() returned; live: not yet collected; closers: those whose
\* close() or __del__ has run
Wrappers == 1..MaxOps
NoWrappers == [name |-> "wrappers", live |-> {1}, made |-> 1, closers |-> {}]

InitWrappers ==
  /\ jcxClosed = FALSE
  /\ connClosed = FALSE
  /\ cur = [c \in Cursors |->
              IF c = Owner THEN [NoCursor EXCEPT !.exists = TRUE, !.thread = Owner]
              ELSE NoCursor]
  /\ jAutoCommit = FALSE
  /\ db = NoDb
  /\ InitCallers
  /\ xlate = NoXlate
  /\ obs = NoObs
  /\ hist = <<>>
  /\ registry = NoRegistry
  /\ queue = {}
  /\ fn = NoWrappers
  /\ java = NoJava

\* a call on the wrapper w
WrapperStep(w, api, o, live, made, closers) ==
  /\ w \in fn.live
  /\ Store(o)
  /\ last' = Call(Owner, api, o.r, Owner)
  /\ fn' = [fn EXCEPT !.live = live, !.made = made, !.closers = closers]
  /\ UNCHANGED <<bound, closeCalled, task, xlate, obs, hist, registry, queue, java>>

\* w._as_type(operation): construct(self._connection, self._jpype_cursor)
GAsType ==
  \E w \in Wrappers :
    /\ fn.made < MaxOps
    /\ WrapperStep(w, "Cursor._as_type", [n |-> Native, r |-> Ok("cursor", <<>>)],
                   fn.live \cup {fn.made + 1}, fn.made + 1, fn.closers)

\* the wrapper w is collected: __del__
GDel ==
  \E w \in Wrappers :
    WrapperStep(w, "Cursor.__del__", Cursor_del(Native, Owner, Owner),
                fn.live \ {w}, fn.made, fn.closers \cup {w})

GClose ==
  \E w \in Wrappers :
    WrapperStep(w, "Cursor.close", Cursor_close(Native, Owner, Owner),
                fn.live, fn.made, fn.closers \cup {w})

GExecute ==
  \E w \in Wrappers, v \in Values :
    WrapperStep(w, "Cursor.execute",
                Cursor_execute(Native, Owner, Owner, "SELECT ?", SeqParams(<<v>>)),
                fn.live, fn.made, fn.closers)

GFetchone ==
  \E w \in Wrappers :
    WrapperStep(w, "Cursor.fetchone", Cursor_fetchone(Native, Owner, Owner),
                fn.live, fn.made, fn.closers)

NextWrappers ==
  \/ GAsType
  \/ GDel
  \/ GClose
  \/ GExecute
  \/ GFetchone

\* wrappers are made by re-typing, used, closed and collected
SpecWrappers == InitWrappers /\ [][NextWrappers]_vars

\* ------------------------------- get_connection called by several threads
\* the locals of each thread inside get_connection: jdbc_driver, and the
\* instance its last call connected with; loads: driver instances created
NoRace ==
  [name |-> "get_connection_steps", jdbc_driver |-> [t \in Threads |-> NoDriver],
   used |-> [t \in Threads |-> NoDriver], loads |-> 0]

\* the runtime is started, every thread is attached, the modules of the
\* drivers are on the classpath, no driver is registered or cached
InitRace ==
  /\ InitIdle
  /\ queue = {}
  /\ fn = NoRace
  /\ java = [NoJava EXCEPT !.started = TRUE, !.starts = 1, !.attached = Threads,
                           !.classpath = {Requires(d) : d \in DriverNames}]

\* get_connection(dsn, driver, ...): if driver in _driver_registry
RBegin ==
  \E t \in Threads, driver \in DriverNames :
    /\ java.pc[t].at = "idle"
    /\ IF java.cache[driver] # NoDriver
       THEN /\ java' = [java EXCEPT !.pc[t] = [IdleJ EXCEPT !.at = "connect",
                                                           !.driver = driver]]
            /\ fn' = [fn EXCEPT !.jdbc_driver[t] = java.cache[driver]]
       ELSE /\ java' = [java EXCEPT !.pc[t] = [IdleJ EXCEPT !.at = "scan",
                                                           !.driver = driver]]
            /\ fn' = [fn EXCEPT !.jdbc_driver[t] = NoDriver]
    /\ JavaOnly

\* for driver_instance in driver_manager.getDrivers()
RScan ==
  \E t \in Threads :
    /\ java.pc[t].at = "scan"
    /\ LET found == Scan(java.drivers, java.pc[t].driver)
       IN  /\ java' = [java EXCEPT !.pc[t].at = IF found # NoDriver THEN "setdefault"
                                                ELSE "load"]
           /\ fn' = [fn EXCEPT !.jdbc_driver[t] = found]
    /\ JavaOnly

\* jdbc_driver = self.load_driver_instance(driver, *modules)
RLoad ==
  \E t \in Threads :
    /\ java.pc[t].at = "load"
    /\ java' = [java EXCEPT !.pc[t].at = "register"]
    /\ fn' = [fn EXCEPT !.jdbc_driver[t] = fn.loads + 1, !.loads = @ + 1]
    /\ JavaOnly

\* driver_manager.registerDriver(jdbc_driver)
RRegister ==
  \E t \in Threads :
    /\ java.pc[t].at = "register"
    /\ java' = [java EXCEPT !.pc[t].at = "setdefault",
                            !.drivers = Append(@, [id |-> fn.jdbc_driver[t],
                                                   cls |-> java.pc[t].driver])]
    /\ UNCHANGED fn
    /\ JavaOnly

\* _driver_registry.setdefault(driver, jdbc_driver)
RSetdefault ==
  \E t \in Threads :
    /\ java.pc[t].at = "setdefault"
    /\ java' = [java EXCEPT !.pc[t].at = "connect",
                            !.cache = setdefault(@, java.pc[t].driver, fn.jdbc_driver[t])]
    /\ UNCHANGED fn
    /\ JavaOnly

\* jdbc_driver.connect(dsn, info)
RConnect ==
  \E t \in Threads :
    /\ java.pc[t].at = "connect"
    /\ java' = [java EXCEPT !.pc[t] = IdleJ]
    /\ fn' = [fn EXCEPT !.used[t] = fn.jdbc_driver[t]]
    /\ JavaOnly

NextRace ==
  \/ RBegin
  \/ RScan
  \/ RLoad
  \/ RRegister
  \/ RSetdefault
  \/ RConnect

\* threads call get_connection at any time; a thread may be switched out
\* between any two of its statements
SpecRace == InitRace /\ [][NextRace]_vars

\* ------------------------------------ a class built by JDBCDialectMeta
\* a class statement with a settings record, with or without a class to
\* inherit from, over one base class
InitMeta ==
  /\ InitIdle
  /\ queue = {}
  /\ java = NoJava
  /\ \E fields \in [SettingsFields -> OwnValues], hasInherit \in BOOLEAN,
        attrs \in [SettingsFields -> BaseValues] :
       fn = [name |-> "JDBCDialectMeta", at |-> "declared",
             in |-> Settings("derived", "jdbc_wrapper", hasInherit,
                             IF hasInherit THEN Dialect("base", "base_driver", attrs)
                             ELSE NoDialect, fields),
             settings |-> Settings("", "", FALSE, NoDialect, fields),
             bases |-> <<Dialect("base", "base_driver", attrs)>>,
             cls |-> NoDialect]

MetaOnly ==
  UNCHANGED <<jcxClosed, connClosed, cur, bound, closeCalled, last, task, xlate,
              jAutoCommit, db, obs, hist, registry, queue, java>>

\* settings = DialectSettings(...): the dataclass runs __post_init__
MSettings ==
  /\ fn.name = "JDBCDialectMeta"
  /\ fn.at = "declared"
  /\ fn' = [fn EXCEPT !.at = "constructed", !.settings = DialectSettings_post_init(fn.in)]
  /\ MetaOnly

\* the end of the class body: the metaclass builds the class
MNew ==
  /\ fn.name = "JDBCDialectMeta"
  /\ fn.at = "constructed"
  /\ fn' = [fn EXCEPT !.at = "built", !.cls = JDBCDialectMeta_new(fn.settings, fn.bases)]
  /\ MetaOnly

NextMeta ==
  \/ MSettings
  \/ MNew

SpecMeta == InitMeta /\ [][NextMeta]_vars

\* --------------------------------------------------------- find_type_code
\* a value given as a type code: an int, a str or None
Scalar(kind, n, s) == [kind |-> kind, n |-> n, s |-> s]
PyNone == Scalar("None", 0, "")
PyInt(n) == Scalar("int", n, "")
PyStr(s) == Scalar("str", 0, s)
TypeCodeValues ==
  {PyNone} \cup {PyInt(n) : n \in 0..MaxValue} \cup {PyInt(j.code) : j \in JdbcTypes}
  \cup {PyStr(s) : s \in JdbcTypeKeys \cup {"", "GEOMETRY"}}

\* the argument of find_type_code: a value, or a description tuple, of which
\* the name and the type code are kept
Descriptions ==
  {[tuple |-> FALSE, items |-> <<v>>] : v \in TypeCodeValues}
  \cup {[tuple |-> TRUE, items |-> <<PyStr(name), v>>] :
          name \in {"id", "NULL"}, v \in TypeCodeValues}

\* find_type_code(description)
find_type_code(reg, description) ==
  LET d == IF description.tuple THEN description.items[2] ELSE description.items[1]
  IN  IF d.kind = "int" THEN d
      ELSE IF d.kind = "None" \/ d.s = "" THEN PyNone
      ELSE IF d.s \in DOMAIN reg.type_codes /\ reg.type_codes[d.s] # NoCode
           THEN PyInt(reg.type_codes[d.s])
           ELSE PyNone

\* find_type_code is called, after so many declarations
TFind ==
  \E description \in Descriptions :
    /\ fn' = [name |-> "find_type_code", description |-> description,
              declared |-> Len(hist), out |-> find_type_code(registry, description)]
    /\ UNCHANGED <<jcxClosed, connClosed, cur, bound, closeCalled, last, task, xlate,
                   jAutoCommit, db, obs, hist, registry, queue, java>>

NextTypeCodes ==
  \/ RWrappedType
  \/ TFind

\* wrapped types are declared and type codes are looked up
SpecTypeCodes == Init /\ [][NextTypeCodes]_vars

\* -------------------------------------------------------------- dsn_to_url
\* str.startswith(prefix) and str.removeprefix(prefix)
startswith(s, prefix) == Len(prefix) <= Len(s) /\ SubSeq(s, 1, Len(prefix)) = prefix
removeprefix(s, prefix) ==
  IF startswith(s, prefix) THEN SubSeq(s, Len(prefix) + 1, Len(s)) ELSE s

\* a jdbc_dsn_prefix: a str, or a tuple of str
StrPrefix(s) == [tuple |-> FALSE, tokens |-> <<s>>]
TuplePrefix(tokens) == [tuple |-> TRUE, tokens |-> tokens]

\* jdbc_dsn_prefix[0]: the first token of a tuple, the first character of a str
prefix_first(prefix) ==
  IF prefix.tuple THEN prefix.tokens[1]
  ELSE SubSeq(prefix.tokens[1], 1, 1)

RECURSIVE join(_)
\* "".join(jdbc_dsn_prefix): of a str it is the str itself
join(tokens) == IF tokens = <<>> THEN "" ELSE Head(tokens) \o join(Tail(tokens))

\* the dialect classes that register_in_sqlalchemy registers, in its order
RegisteredConnectors ==
  << [key |-> "postgresql.jdbc_wrapper", name |-> "postgresql", driver |-> "jdbc_wrapper",
      jdbc_dsn_prefix |-> TuplePrefix(<<"jdbc:postgresql:", "//">>)],
     [key |-> "postgresql.jdbc_async_wrapper", name |-> "postgresql",
      driver |-> "jdbc_async_wrapper",
      jdbc_dsn_prefix |-> TuplePrefix(<<"jdbc:postgresql:", "//">>)],
     [key |-> "mssql.jdbc_wrapper", name |-> "mssql", driver |-> "jdbc_wrapper",
      jdbc_dsn_prefix |-> StrPrefix("jdbc:sqlserver://")] >>
NoConnector == [key |-> "", name |-> "", driver |-> "", jdbc_dsn_prefix |-> StrPrefix("")]

\* registry.load(key)
registry_load(key) ==
  LET i == CHOOSE i \in 1..Len(RegisteredConnectors) : RegisteredConnectors[i].key = key
  IN  RegisteredConnectors[i]

\* registry.register(key, ...): a dict entry, which keeps its place when it is
\* assigned again
registry_register(impls, key) ==
  IF \E i \in 1..Len(impls) : impls[i] = key THEN impls ELSE Append(impls, key)

\* register_in_sqlalchemy()
register_in_sqlalchemy(impls) ==
  registry_register(
    registry_register(
      registry_register(impls, "postgresql.jdbc_wrapper"),
      "postgresql.jdbc_async_wrapper"),
    "mssql.jdbc_wrapper")

\* the keys of registry.impls as iter_jdbc_connector leaves them
impls_after_iter(impls) ==
  IF \E i \in 1..Len(impls) : impls[i] = "sqlite.jdbc_wrapper" THEN impls
  ELSE register_in_sqlalchemy(impls)

\* key.endswith((".jdbc_wrapper", ".jdbc_async_wrapper"))
is_wrapper_key(key) ==
  \E suffix \in {".jdbc_wrapper", ".jdbc_async_wrapper"} :
    /\ Len(suffix) <= Len(key)
    /\ SubSeq(key, Len(key) - Len(suffix) + 1, Len(key)) = suffix

\* iter_jdbc_connector(): the classes it yields, in order
iter_jdbc_connector(impls) ==
  LET keys == SelectSeq(impls_after_iter(impls), is_wrapper_key)
  IN  [i \in 1..Len(keys) |-> registry_load(keys[i])]

\* dsn.startswith(jdbc_connector.jdbc_dsn_prefix[0])
dsn_matches(dsn, connector) == startswith(dsn, prefix_first(connector.jdbc_dsn_prefix))

\* the for loop of dsn_to_url: the first connector that matches, or none
select_connector(dsn, connectors) ==
  IF \E i \in 1..Len(connectors) : dsn_matches(dsn, connectors[i])
  THEN connectors[CHOOSE i \in 1..Len(connectors) :
                    /\ dsn_matches(dsn, connectors[i])
                    /\ \A j \in 1..(i - 1) : ~dsn_matches(dsn, connectors[j])]
  ELSE NoConnector

\* dsn_to_url(dsn, connector): the connector used and the text given to make_url
dsn_to_url(impls, dsn, connector) ==
  LET selected == IF connector = NoConnector
                  THEN select_connector(dsn, iter_jdbc_connector(impls))
                  ELSE connector
      url_parts == removeprefix(dsn, join(selected.jdbc_dsn_prefix.tokens))
  IN  IF selected = NoConnector
      THEN [selected |-> selected,
            out |-> Raise(PythonExc("ValueError", "Unknown JDBC DSN: " \o dsn))]
      ELSE [selected |-> selected,
            out |-> Ok("str", <<selected.name \o "+" \o selected.driver \o "://"
                                \o url_parts>>)]

DsnInputs ==
  {"jdbc:postgresql://h/db", "jdbc:postgresql:db", "jdbc:sqlserver://h;x=1",
   "jdbc:sqlserver:h", "jdbc:sqlite::memory:", "jdbc:mysql://h/db", "junk",
   "oracle:thin:@h", "sqlite://", ""}

\* the dialects SQLAlchemy knows before this package registers its own
ImplsInputs == {<<>>, <<"mysql.pymysql">>}

InitDsn ==
  /\ InitIdle
  /\ queue = {}
  /\ java = NoJava
  /\ \E impls \in ImplsInputs :
       fn = [name |-> "dsn_to_url", impls |-> impls, called |-> FALSE, dsn |-> "",
             connector |-> NoConnector, selected |-> NoConnector, out |-> Ok("none", <<>>)]

DsnOnly ==
  UNCHANGED <<jcxClosed, connClosed, cur, bound, closeCalled, last, task, xlate,
              jAutoCommit, db, obs, hist, registry, queue, java>>

\* the application registers the dialects itself
URegister ==
  /\ fn.name = "dsn_to_url"
  /\ fn' = [fn EXCEPT !.impls = register_in_sqlalchemy(@)]
  /\ DsnOnly

\* dsn_to_url(dsn) or dsn_to_url(dsn, connector)
UDsnToUrl ==
  \E dsn \in DsnInputs,
     connector \in {NoConnector} \cup {RegisteredConnectors[i] : i \in 1..Len(RegisteredConnectors)} :
    /\ fn.name = "dsn_to_url"
    /\ LET r == dsn_to_url(fn.impls, dsn, connector)
       IN  fn' = [fn EXCEPT !.called = TRUE, !.dsn = dsn, !.connector = connector,
                            !.impls = IF connector = NoConnector THEN impls_after_iter(@)
                                      ELSE @,
                            !.selected = r.selected, !.out = r.out]
    /\ DsnOnly

NextDsn ==
  \/ URegister
  \/ UDsnToUrl

SpecDsn == InitDsn /\ [][NextDsn]_vars

\* ------------------------------------------------------------------ claims
CursorOps ==
  {"Cursor.execute", "Cursor.executemany", "Cursor.fetchone", "Cursor.fetchmany",
   "Cursor.fetchall"}

C2_OriginalErrorAfterCleanup ==
  (last.caller \in Tasks /\ last.orig # NoExc) =>
    /\ Connection_is_closed(Native)
    /\ last.shield
    /\ last.exc = last.orig

\* C3: every caller that executes SELECT ? with its own value on its own cursor
\* of the shared connection and calls fetchone gets back exactly the row of the
\* value it bound, whatever the other callers do in between.
C3_EachCallerFetchesItsOwnValue ==
  (last.api = "Cursor.fetchone" /\ last.expect # 0 /\ ~closeCalled) =>
    /\ last.status = "ok"
    /\ last.vtag = "row"
    /\ last.value = <<(<<last.expect>>)>>

\* a caller fetched its row while another caller's cursor holds the unfetched
\* row of a different value
C3_Witness ==
  /\ last.api = "Cursor.fetchone"
  /\ last.expect # 0
  /\ last.status = "ok"
  /\ \E d \in Threads :
       /\ d # last.caller
       /\ bound[d] # 0
       /\ bound[d] # last.expect
       /\ cur[d].rs.rows = <<(<<bound[d]>>)>>

\* C4: every blocking operation of the async connection makes its native call
\* through the bridge, never directly on the event-loop thread.
C4_NoNativeCallOnLoopThread ==
  last.caller \in Tasks => last.nthread # LoopThread

\* C5: catch_errors re-raises, for a native exception of each class of the
\* taxonomy, the taxonomy member of the same class (never a parent class) with
\* the original args and the original exception as cause, and returns the result
\* of a call that raises nothing unchanged.
C5_SameKindArgsAndCause ==
  xlate.phase = "returned" =>
    /\ xlate.in.status = "ok" => xlate.out = xlate.in
    /\ (xlate.in.status = "raised" /\ xlate.in.exc.kind \in Kinds) =>
         /\ xlate.out.status = "raised"
         /\ xlate.out.exc.layer = "taxonomy"
         /\ xlate.out.exc.kind = xlate.in.exc.kind
         /\ xlate.out.exc.args = xlate.in.exc.args
         /\ xlate.out.exc.cause = [kind |-> xlate.in.exc.kind, args |-> xlate.in.exc.args]

\* a NotSupportedError, whose parent classes DatabaseError and Error also have
\* except clauses, was translated with two args
C5_Witness ==
  /\ xlate.phase = "returned"
  /\ xlate.in.status = "raised"
  /\ xlate.in.exc.kind = "NotSupportedError"
  /\ Len(xlate.in.exc.args) = 2
  /\ xlate.out.exc.kind = "NotSupportedError"

\* C6: no caller of an operation that reaches the native runtime ever observes
\* an exception of the native layer's own classes.
C6_NoNativeExceptionObserved ==
  last.exc.layer # "native"

\* C7: a close() (or "with" exit) of a synchronous Connection that is already
\* closed raises nothing, and is_closed is true after the first close and stays
\* true.
C7_ConnectionCloseIdempotent ==
  /\ (last.api \in {"Connection.close", "Connection.__exit__"} /\ last.wasClosed) =>
       last.status = "ok"
  /\ closeCalled => Connection_is_closed(Native)

\* C8: awaiting close() (or "async with" exit) on an AsyncConnection that is
\* already closed raises nothing and is_closed stays true.
C8_AsyncCloseIdempotent ==
  (last.api \in {"AsyncConnection.close", "AsyncConnection.__aexit__"} /\ last.wasClosed) =>
    (last.status = "ok" /\ Connection_is_closed(Native))

\* C9: a close() (or "with" exit) of a Cursor that is already closed raises
\* nothing and leaves the cursor closed.
C9_CursorCloseIdempotent ==
  (last.api \in {"Cursor.close", "Cursor.__exit__"} /\ last.wasClosed) =>
    (last.status = "ok" /\ cur[last.caller].closed)

\* C10: a cursor reports is_closed = false only if its local closed flag is
\* false and the native handle reports open; once close() of its connection has
\* been called it reports is_closed = true, without cursor.close().
C10_IsClosedReflectsBoth ==
  \A c \in Cursors :
    cur[c].exists =>
      /\ ~Cursor_is_closed(Native, c) => (~cur[c].closed /\ ~jcxClosed)
      /\ closeCalled => Cursor_is_closed(Native, c)

\* the connection was closed and a cursor that was never closed reports closed
C10_Witness ==
  \E c \in Cursors :
    /\ cur[c].exists
    /\ ~cur[c].closed
    /\ closeCalled
    /\ Cursor_is_closed(Native, c)

\* C11: after an execute that yields rows, successive fetchone() calls return
\* the rows in result order, each as a tuple, and None once none remain;
\* fetchall() returns exactly the rows not yet fetched, in order (empty when none
\* remain), and leaves none, so that a following fetchone() returns None.
C11_FetchInResultOrder ==
  /\ (obs.api = "Cursor.fetchone" /\ obs.live) =>
       /\ obs.r.status = "ok"
       /\ IF obs.want = <<>> THEN obs.r.vtag = "None"
          ELSE obs.r.vtag = "row" /\ obs.r.value = <<Head(obs.want)>>
  /\ (obs.api = "Cursor.fetchall" /\ obs.live) =>
       /\ obs.r.status = "ok"
       /\ obs.r.vtag = "rows"
       /\ obs.r.value = obs.want
       /\ obs.remaining = <<>>

\* fetchall() after one of several rows was fetched returned the other rows
C11_Witness ==
  /\ obs.api = "Cursor.fetchall"
  /\ obs.live
  /\ Len(TableRows) > 1
  /\ obs.r.value = Tail(TableRows)

\* the number of rows a fetchmany call is to return
C12_Expected ==
  LET size == IF obs.omitted THEN obs.arraysize ELSE obs.size
  IN  IF size < Len(obs.want) THEN size ELSE Len(obs.want)

\* C12: fetchmany() without a size fetches arraysize rows and fetchmany(n)
\* returns n rows whenever n rows remain (fewer only at the end of the result),
\* on the synchronous Cursor and on the cursor of the SQLAlchemy async adapter.
C12_FetchmanySize ==
  (obs.api \in {"Cursor.fetchmany", "AsyncCursor.fetchmany"} /\ obs.live) =>
    /\ obs.r.status = "ok"
    /\ Len(obs.r.value) = C12_Expected

\* C15: rowcount is -1 from the creation of the cursor until a DML statement
\* executes on it, and equals n after a DML statement that affects n rows.
C15_Rowcount ==
  obs.api = "Cursor.rowcount" =>
    /\ obs.r.status = "ok"
    /\ ~obs.everDml => obs.r.value = <<-1>>
    /\ obs.affected # -1 => obs.r.value = <<obs.affected>>

\* rowcount read after a batch of more than one row
C15_Witness ==
  /\ obs.api = "Cursor.rowcount"
  /\ obs.affected > 1
  /\ obs.r.value = <<obs.affected>>

\* C16: description is None until a statement executes; every execute resets it
\* to the metadata of the new result, one entry per column in column order, or
\* to None when the statement returns no result set.
C16_Description ==
  obs.api = "Cursor.description" =>
    /\ obs.r.status = "ok"
    /\ IF obs.cols.isNone THEN obs.r.vtag = "None"
       ELSE obs.r.vtag = "description" /\ obs.r.value = obs.cols.columns

\* description read after a query with two result columns
C16_Witness ==
  /\ obs.api = "Cursor.description"
  /\ obs.r.vtag = "description"
  /\ obs.r.value = <<"id", "name">>

\* C17: a new cursor has arraysize 1; the arraysize of the wrapper and of the
\* native cursor are both the last value assigned.
C17_Arraysize ==
  /\ cur[Owner].arraysize = obs.assigned
  /\ obs.api = "Cursor.arraysize" => (obs.r.status = "ok" /\ obs.r.value = <<obs.assigned>>)

\* arraysize read back after an assignment that changed it
C17_Witness ==
  /\ obs.api = "Cursor.arraysize"
  /\ obs.assigned # 1
  /\ obs.r.value = <<obs.assigned>>

\* C13: execute with a named mapping hands the native cursor exactly the
\* mapping's values in iteration order, the same list as execute with
\* list(mapping.values()); a positional sequence is handed over in its own order.
C13_MappingFlattened ==
  obs.api = "Cursor.execute" =>
    /\ obs.args.kind = "map" =>
         /\ obs.nargs = ExecuteArgs(SeqParams(Bound(obs.args)))
         /\ Bound(obs.args) # <<>> => obs.nargs = SeqParams(Bound(obs.args))
    /\ (obs.args.kind = "seq" /\ obs.args.items # <<>>) => obs.nargs = obs.args

\* a mapping of two keys with different values was executed and the row of the
\* two values, in iteration order, is what the statement returned
C13_Witness ==
  /\ obs.api = "Cursor.execute"
  /\ obs.args.kind = "map"
  /\ Len(obs.args.items) = 2
  /\ obs.args.items[1] # obs.args.items[2]
  /\ obs.r.status = "ok"
  /\ cur[Owner].rs.rows = <<(<<obs.args.items[1], obs.args.items[2]>>)>>

\* C14: executemany flattens every parameter set as execute does: a set that is
\* a named mapping reaches the native cursor as the list of its values in
\* iteration order, in the one batched native call made for the whole sequence.
C14_EverySetFlattened ==
  obs.api = "Cursor.executemany" =>
    /\ obs.nargs.kind = "seq"
    /\ Len(obs.nargs.items) = Len(obs.args.items)
    /\ \A i \in 1..Len(obs.nargs.items) :
         /\ obs.nargs.items[i].kind = "seq"
         /\ obs.nargs.items[i].items = Bound(obs.args.items[i])

\* the value most recently assigned to autocommit in the session (off at first)
C18_LastAssigned ==
  LET sets == {i \in 1..Len(hist) : hist[i].op = "autocommit"}
  IN  IF sets = {} THEN FALSE
      ELSE hist[CHOOSE i \in sets : \A j \in sets : j <= i].v = 1

\* C18: the autocommit getter of the synchronous Connection, of the
\* AsyncConnection and of the SQLAlchemy adapter connection each return the
\* native connection's current flag: false at first, and what was last assigned
\* through any of them.
C18_AutocommitMirrorsNative ==
  (last.api \in AutocommitGetters /\ ~last.wasClosed) =>
    /\ last.status = "ok"
    /\ last.value = <<jAutoCommit>>
    /\ jAutoCommit = C18_LastAssigned

\* the rows whose insert was followed by a commit() with no rollback() between
C19_Committed ==
  {v \in Values :
     \E i, j \in 1..Len(hist) :
       /\ i < j
       /\ hist[i] = Event("insert", v)
       /\ hist[j].op = "commit"
       /\ \A k \in (i + 1)..(j - 1) : hist[k].op # "rollback"}

\* C19: with autocommit off, the rows a later session sees are exactly those
\* whose insert was followed by commit() before the session ended; a row
\* followed by rollback(), or by the end of the session without commit, is not
\* among them.
C19_VisibleIffCommitted ==
  (\A i \in 1..Len(hist) : hist[i].op # "autocommit") =>
    /\ db.committed = C19_Committed
    /\ Connection_is_closed(Native) => db.pending = {}

\* a session that committed one row, inserted another and ended without commit
C19_Witness ==
  /\ Len(hist) = 3
  /\ hist[1].op = "insert"
  /\ hist[2].op \in {"commit", "rollback"}
  /\ hist[3].op = "close"
  /\ (hist[2].op = "commit") = (hist[1].v \in db.committed)

\* the keys a registration names in pipeline._registry and in types._registry
C20_PipelineKeysOf(object) ==
  IF object.kind # "pipeline" THEN {}
  ELSE {IF object.dtype.isstr THEN object.dtype.name ELSE TypeKey(object.dtype.name),
        Upper(object.dtype.name)}
       \cup {object.jtypes[i] : i \in 1..Len(object.jtypes)}

C20_TypeKeysOf(object) ==
  IF object.kind # "wrapped" THEN {} ELSE {object.jdbc_type.name}

\* the first object whose registration named the key; NoObject when none did
C20_First(named) ==
  IF named = {} THEN NoObject ELSE CHOOSE i \in named : \A j \in named : i <= j

\* C20: after any sequence of registrations each key of the type registries maps
\* to the object of the first registration that named it (to nothing when none
\* did): a later registration for a key that is present changes nothing for it.
C20_FirstWriterWins ==
  /\ \A k \in PipelineKeys :
       registry.pipeline[k] = C20_First({i \in 1..Len(hist) : k \in C20_PipelineKeysOf(hist[i])})
  /\ \A k \in JdbcTypeKeys :
       registry.types[k] = C20_First({i \in 1..Len(hist) : k \in C20_TypeKeysOf(hist[i])})

\* a later registration named a key that an earlier one had named: a pipeline
\* that also named a new key, or a wrapped type with another python type
C20_Witness ==
  \/ \E i, j \in 1..Len(hist) :
       /\ i < j
       /\ C20_PipelineKeysOf(hist[i]) \cap C20_PipelineKeysOf(hist[j]) # {}
       /\ C20_PipelineKeysOf(hist[j]) \ C20_PipelineKeysOf(hist[i]) # {}
  \/ \E i, j \in 1..Len(hist) :
       /\ i < j
       /\ hist[i].kind = "wrapped"
       /\ hist[j].kind = "wrapped"
       /\ hist[i].jdbc_type = hist[j].jdbc_type
       /\ hist[i].python_type # hist[j].python_type

\* the keys under which a built-in pipeline class is looked up: its type, each
\* of its native classes, the name of its type in three letter cases
C21_Lookups(cls) ==
  {[kind |-> "key", key |-> TypeKey(BuiltinPipelines[cls].dtype)]}
  \cup {[kind |-> "key", key |-> BuiltinPipelines[cls].jtypes[j]] :
          j \in 1..Len(BuiltinPipelines[cls].jtypes)}
  \cup {[kind |-> "str", key |-> LetterCases[cls][j]] : j \in 1..3}

\* C21: once a built-in pipeline class has been instantiated (all of them, after
\* the initialisation of the runtime), looking up its type, each of its native
\* classes and the name of its type in any letter case returns that one pipeline
\* object, in whatever order the queued classes were instantiated.
C21_LookupsAgree ==
  \A cls \in (1..Len(BuiltinPipelines)) \ queue :
    \A dtype \in C21_Lookups(cls) :
      get_type_pipeline(registry, dtype) = Ok("object", <<cls>>)

\* the runtime is initialised: every queued class was instantiated
C21_Witness ==
  /\ queue = {}
  /\ \A cls \in 1..Len(BuiltinPipelines) :
       registry.pipeline[LetterCases[cls][3]] # NoObject

\* C22: a settings record built with a base resolves every field other than
\* inherit, name and driver to its own value when that was given, otherwise to
\* the base's value when the base defines the field, otherwise leaves it unset;
\* a given value is never replaced by the base's.
C22_SettingsInheritance ==
  (fn.name = "DialectSettings" /\ fn.done /\ fn.in.hasInherit) =>
    /\ \A f \in SettingsFields :
         fn.out.fields[f] =
           IF fn.in.fields[f] # Unset THEN fn.in.fields[f]
           ELSE IF fn.in.inherit.attrs[f] # Missing THEN fn.in.inherit.attrs[f]
           ELSE Unset
    /\ fn.out.name = fn.in.name
    /\ fn.out.driver = fn.in.driver

\* a record was resolved that gave one field, left one to the base that defines
\* another value for both, and left one the base does not define
C22_Witness ==
  /\ fn.name = "DialectSettings"
  /\ fn.done
  /\ fn.in.hasInherit
  /\ fn.in.fields["supports_alter"] = "own"
  /\ fn.in.inherit.attrs["supports_alter"] = "base"
  /\ fn.in.fields["is_async"] = Unset
  /\ fn.out.fields["is_async"] = "base"
  /\ fn.in.fields["colspecs"] = Unset
  /\ fn.in.inherit.attrs["colspecs"] = Missing

C24_IsDisconnect ==
  fn.name = "is_disconnect" =>
    fn.out = IF fn.connection THEN fn.connection_is_closed
             ELSE IF fn.cursor THEN fn.cursor_is_closed
             ELSE FALSE

\* asked with an open connection and its closed cursor: not a disconnect
C24_Witness ==
  /\ fn.name = "is_disconnect"
  /\ fn.connection
  /\ fn.cursor
  /\ ~fn.connection_is_closed
  /\ fn.cursor_is_closed
  /\ ~fn.out

\* the error of a query without jdbc_driver, and no connect arguments
C25_Fails ==
  /\ fn.out.status = "raised"
  /\ fn.out.exc.kind = "OperationalError"
  /\ fn.out.exc.args = <<"The jdbc_driver key is required in the query string">>
  /\ fn.out.args = NoConnectArgs

C26_Others(query) ==
  [query EXCEPT !["jdbc_driver"] = Absent, !["jdbc_modules"] = Absent]

C27_CommaParts(s) ==
  CASE s = "" -> <<>>
    [] s = "a.jar,b.jar" -> <<"a.jar", "b.jar">>
    [] OTHER -> <<s>>

\* C27: a comma-separated jdbc_modules string of k paths yields a modules
\* argument of those k paths, a sequence yields its own elements, an empty or
\* absent value yields no modules argument.
C27_ModulesArgument ==
  (fn.name = "_create_connect_args" /\ fn.out.status = "ok") =>
    LET given == IF fn.by = "JDBCConnector" /\ fn.override.present
                 THEN Merge(fn.query, fn.override.query)["jdbc_modules"]
                 ELSE fn.query["jdbc_modules"]
        paths == IF given.kind = "str" THEN C27_CommaParts(given.s) ELSE given.items
    IN  /\ fn.out.args.hasModules = (paths # <<>>)
        /\ fn.out.args.modules = paths

\* C28: get_connection takes the instance cached under the driver string when
\* there is one, and then scans, loads and registers nothing; otherwise the
\* registered driver whose class has that name; otherwise a newly loaded
\* instance, which it registers.  The instance it took is the cached one from
\* then on.
C28_ResolutionOrder ==
  fn.name = "get_connection" =>
    /\ IF fn.cached # NoDriver
       THEN fn.how = "cache" /\ fn.instance = fn.cached /\ fn.after = fn.before
       ELSE IF fn.registered # NoDriver
       THEN fn.how = "scan" /\ fn.instance = fn.registered /\ fn.after = fn.before
       ELSE /\ fn.how = "load"
            /\ fn.status = "ok" => fn.after = fn.before + 1 /\ fn.instance = fn.after
    /\ fn.status = "ok" => java.cache[fn.driver] = fn.instance

\* a connect took the cached instance that an earlier connect had loaded
C28_Witness ==
  /\ fn.name = "get_connection"
  /\ fn.how = "cache"
  /\ fn.instance # NoDriver
  /\ fn.registered = fn.instance
  /\ fn.after = fn.before
  /\ fn.before >= 1

\* C29: on every connect(dsn, driver, modules), also after an earlier connect
\* has started the runtime, the modules are on the classpath when the driver is
\* chosen.
C29_ModulesAvailable ==
  fn.name = "get_connection" => fn.available

\* C30: over any start() and attach() calls of any threads the runtime is
\* started at most once and each thread is attached at most once; start() on a
\* started runtime and attach() on an attached thread change nothing.
C30_StartedAndAttachedOnce ==
  /\ java.starts <= 1
  /\ \A t \in Threads : java.attachCalls[t] <= 1
  /\ java.started = (java.starts = 1)
  /\ (fn.name \in {"start", "attach"} /\ fn.status = "ok") =>
       /\ fn.wasStarted /\ fn.wasAttached => fn.same
       /\ fn.t \in java.attached

\* with the runtime started and every thread attached, a thread that another
\* thread's start had not attached called start() again: nothing changed
C30_Witness ==
  /\ java.starts = 1
  /\ java.attached = Threads
  /\ fn.name = "start"
  /\ fn.status = "ok"
  /\ fn.wasStarted
  /\ fn.wasAttached
  /\ fn.same
  /\ java.attachCalls[fn.t] = 1

\* the thread the claim names: the one of the most recent native call or write,
\* the creating thread for a fresh cursor
C31_Affinity == IF hist = <<>> THEN Owner ELSE Id("thread", hist[1].v)

\* C31: thread_id is the thread that last executed a native call against the
\* cursor (its creator when fresh), a write of thread_id is what later reads
\* return, and no operation on the cursor is rejected because its thread is not
\* thread_id.
C31_ThreadIdOnlyExposed ==
  /\ last.api = "Cursor.thread_id" => last.value = <<C31_Affinity>>
  /\ last.api \in CursorOps \cup {"Cursor.close"} =>
       ~(last.status = "raised" /\ last.exc.args = <<"Threading error">>)

\* C32: outside a greenlet context the coroutine runs on the single worker of
\* a pool made for the call, the caller goes on only when that worker has
\* finished, and gets what the coroutine returned or raised; inside a greenlet
\* context no worker thread is created.
C32_WrapAsync ==
  (fn.name = "wrap_async" /\ fn.pc = "returned") =>
    /\ fn.alive = 0
    /\ IF fn.greenlet
       THEN fn.workers = fn.before /\ fn.ran_on = "caller"
       ELSE /\ fn.workers = fn.before + 1
            /\ fn.ran_on = "worker"
            /\ fn.future.done
            /\ fn.result = fn.coro

\* outside a greenlet context the coroutine raised, and the caller got that
\* exception after the worker had finished
C32_Witness ==
  /\ fn.name = "wrap_async"
  /\ fn.pc = "returned"
  /\ ~fn.greenlet
  /\ fn.coro.status = "raised"
  /\ fn.result = fn.coro
  /\ fn.ran_on = "worker"
  /\ fn.calls = 2

\* the native calls the operations issued so far ask for, in the order issued
RECURSIVE C33_Expected(_)
C33_Expected(k) ==
  IF k = 0 THEN <<>>
  ELSE C33_Expected(k - 1) \o <<Event(SubSeq(fn.issued[k], 8, Len(fn.issued[k])), k)>>

C34_KeysOf(cls) ==
  LET c == PipelineClasses[cls]
  IN  {IF c.dtype.isstr THEN c.dtype.name ELSE TypeKey(c.dtype.name), Upper(c.dtype.name)}
      \cup {c.jtypes[j] : j \in 1..Len(c.jtypes)}

\* C34: defining a pipeline class only queues it; the registry is empty until
\* the runtime is ready; when the hook fires every class queued then is
\* instantiated exactly once, and after it every key of every such class is in
\* the registry, held by a class that registers under it (by the class itself
\* when no other class shares the key).
C34_QueuedThenInstantiated ==
  fn.name = "init_pipeline" =>
    /\ fn.fired = 0 => registry = NoRegistry
    /\ \A cls \in DOMAIN PipelineClasses :
         /\ fn.count[cls] <= 1
         /\ fn.count[cls] = 1 => cls \in fn.atFire
    /\ (fn.fired = 1 /\ fn.todo = {}) =>
         \A cls \in fn.atFire :
           /\ fn.count[cls] = 1
           /\ \A key \in C34_KeysOf(cls) :
                registry.pipeline[key] \in {c \in fn.atFire : key \in C34_KeysOf(c)}

\* the hook has run over the built-in classes and the application's class
C34_Witness ==
  /\ fn.name = "init_pipeline"
  /\ fn.fired = 1
  /\ fn.todo = {}
  /\ fn.atFire = DOMAIN PipelineClasses
  /\ \A cls \in DOMAIN PipelineClasses : fn.count[cls] = 1
  /\ registry.pipeline["int"] = UserClass

\* C35: _safe_run_in_thread always ends: the except block awaits close() at
\* most once, also when that close() fails and leaves the connection open, and
\* every call that was begun returns to its caller.
C35_Terminates ==
  /\ [](\A a \in Tasks : task[a].depth <= 1)
  /\ \A a \in Tasks : (task[a].pc # "idle") ~> (task[a].pc = "idle")

\* the operation failed, the close() of the except block failed too and left
\* the connection open, and the call has returned with that error
C35_Witness ==
  /\ last.api = "AsyncConnection.commit"
  /\ last.status = "raised"
  /\ last.exc.layer = "java"
  /\ last.orig.kind = "OperationalError"
  /\ last.shield
  /\ ~Connection_is_closed(Native)
  /\ task[last.caller].pc = "idle"

\* C36: the close() or the collection of one Cursor wrapper never closes the
\* native cursor another live wrapper uses: when the native cursor is closed,
\* every live wrapper over it has been closed itself.
C36_NoSharedHandleClosed ==
  (fn.name = "wrappers" /\ cur[Owner].closed) => fn.live \subseteq fn.closers

\* C37: when several threads call get_connection for a driver that is not
\* cached yet, at most one instance of it is loaded and registered, and every
\* caller connects with the instance that is in the cache.
C37_LoadedOnce ==
  fn.name = "get_connection_steps" =>
    /\ \A driver \in DriverNames :
         Cardinality({i \in 1..Len(java.drivers) : java.drivers[i].cls = driver}) <= 1
    /\ fn.loads <= Cardinality(DriverNames)
    /\ \A t \in Threads :
         (java.pc[t].at = "idle" /\ fn.used[t] # NoDriver) =>
           \E driver \in DriverNames : fn.used[t] = java.cache[driver]

\* C38: no class built by the settings metaclass has an attribute equal to the
\* unset sentinel, and a field that is still unset after inheritance is not
\* written into the class: reading it gives what the base classes define.
C38_UnsetNotWritten ==
  (fn.name = "JDBCDialectMeta" /\ fn.at = "built") =>
    \A f \in SettingsFields :
      /\ fn.cls.attrs[f] # Unset
      /\ fn.settings.fields[f] = Unset => fn.cls.attrs[f] = BasesAttr(fn.bases, f)

\* C40: find_type_code of the name of a declared wrapped type is the type code
\* of that type, also when the code is 0; of an integer it is the integer, of
\* a description tuple it is the result for the second element, and of an
\* unknown or empty name it is None.
C40_FindTypeCode ==
  fn.name = "find_type_code" =>
    LET d == IF fn.description.tuple THEN fn.description.items[2]
             ELSE fn.description.items[1]
        declared == {hist[i].jdbc_type : i \in {k \in 1..fn.declared : hist[k].kind = "wrapped"}}
    IN  /\ d.kind = "int" => fn.out = d
        /\ d.kind = "str" =>
             /\ \A j \in declared : j.name = d.s => fn.out = PyInt(j.code)
             /\ (\A j \in declared : j.name # d.s) => fn.out = PyNone

\* C39: dsn_to_url without a connector selects a connector only when the dsn
\* starts with the whole DSN prefix of that connector (the concatenation of its
\* tokens), for str and tuple prefixes alike, and raises ValueError when the
\* prefix of no registered connector matches.
C39_SelectsByWholePrefix ==
  (fn.name = "dsn_to_url" /\ fn.called /\ fn.connector = NoConnector) =>
    /\ fn.selected # NoConnector =>
         startswith(fn.dsn, join(fn.selected.jdbc_dsn_prefix.tokens))
    /\ (\A i \in 1..Len(RegisteredConnectors) :
          ~startswith(fn.dsn, join(RegisteredConnectors[i].jdbc_dsn_prefix.tokens))) =>
         /\ fn.out.status = "raised"
         /\ fn.out.exc.kind = "ValueError"

====
